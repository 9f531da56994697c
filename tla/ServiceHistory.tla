--------------------------- MODULE ServiceHistory ---------------------------
(***************************************************************************)
(* Service with two history variables, which record what the code itself   *)
(* keeps nowhere: the configuration every model had when it was last in    *)
(* memory, and what the request that is loading a model asked for.  They   *)
(* follow the steps of Service and restrict none of them.                  *)
(***************************************************************************)
EXTENDS Service

VARIABLES
    had,     \* model -> the configuration it has, or had when it was last in memory
    asked    \* the context size and the keep-alive of the request that is at its load

historyVars == <<vars, had, asked>>

NothingAsked == [context |-> 0, keep |-> Unset]

HistoryInit ==
    /\ Init
    /\ had = [m \in {} |-> 0]
    /\ asked = NothingAsked

\* The models whose files are removed, all of them, in this step.  A later model of
\* the same name has nothing to do with them.
Removed == {m \in Models : RemoveModel(m, TRUE)}

\* had follows the tables, not what is remembered.
RecordModels ==
    had' = [m \in DOMAIN loaded' \cup (DOMAIN had \ Removed) |->
               IF m \in DOMAIN loaded'
               THEN [context |-> loaded'[m], keepAlive |-> residency'[m].keepAlive]
               ELSE had[m]]

\* asked holds what a request came with until its load is over.
RecordRequest ==
    asked' = CASE pc = "idle" /\ pc' = "load" -> [context |-> job'.context, keep |-> job'.keep]
               [] pc # "idle" /\ pc' \in {"load", "room", "loading"} -> asked
               [] OTHER -> NothingAsked

HistoryNext == Next /\ RecordModels /\ RecordRequest

HistorySpec == HistoryInit /\ [][HistoryNext]_historyVars

\* The fairness is that of FairSpec: a step of the worker is one here.
FairHistorySpec == HistorySpec /\ WF_vars(Work)

-----------------------------------------------------------------------------
\* A model that comes back comes back as it was when it went, in context size and in
\* keep-alive, as far as the request leaves them open: whatever evicted it, whatever
\* was loaded, refused or removed in part in between, and however it was used last.
\* (ModelManager::load, remembered_)
ReloadKeepsConfiguration ==
    [][\A m \in DOMAIN had \cap (DOMAIN loaded' \ DOMAIN loaded) :
           /\ asked.context = 0 => loaded'[m] = had[m].context
           /\ asked.keep = Unset => residency'[m].keepAlive = had[m].keepAlive]_historyVars
=============================================================================
