-------------------------- MODULE MCBashExecution ---------------------------
EXTENDS BashExecution

\* With MaxBytes = 2 the window is drained beyond 8 bytes and keeps 4.  The short
\* writes stay below the limits, as bytes or not; a long one is read in two
\* chunks, each of which drains the window: many short lines, or a line longer
\* than the window and an open one with a byte that is no text.
MCPieces ==
    LET c == "char"
        n == "newline"
    IN  {<<c, n>>,
         <<"bad", n>>,
         <<c, n, n, c, c, c, n, c, n, c, n, n, c, n>>,
         <<c, n, c, c, c, c, c, c, c, c, n, "bad", c, c>>}
=============================================================================
