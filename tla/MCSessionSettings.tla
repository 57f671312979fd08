-------------------------- MODULE MCSessionSettings --------------------------
(***************************************************************************)
(* A small instance of SessionSettings: "m" and "n" are tools of MCP       *)
(* servers that old logs both know as "o", a name an extension may use.    *)
(***************************************************************************)
EXTENDS SessionSettings, TLC

MCBuiltins == "b" :> "direct"
MCKernel   == "tool_search" :> "direct"
MCOffers   == {<<"b", "hidden">>, <<"o", "deferred">>}
MCCatalogs == {<< >>, "m" :> "direct", "m" :> "deferred" @@ "n" :> "direct"}
MCOldName  == [x \in {"m", "n"} |-> "o"]
MCSize     == [x \in Names |-> IF x = "m" THEN 2 ELSE 1]
MCRankings == {<<"m", "o">>}
MCLists    == {{}, {"m", "tool_search"}}
MCOwners   == {[model |-> "m1", level |-> "low", mode |-> "plan",
                tools |-> [loaded |-> {"b"}, disabled |-> {"o"}]]}
MCOldLogs  == {<<Entry("legacy", [loaded |-> {"b", "o"}, disabled |-> {}])>>}
=============================================================================
