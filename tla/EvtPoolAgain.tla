---------------------------- MODULE EvtPoolAgain ----------------------------
(***************************************************************************)
(* A subscriber that posts the event it has retained a second time, to     *)
(* hand it on to the next dispatch, which Anbo_EvtQ_Post does not refuse.  *)
(* EvtPool and its theorems leave this out.                                *)
(***************************************************************************)
EXTENDS EvtPool

\* Anbo_EvtQ_Post on a retained event; the subscriber keeps its reference.
PostAgain(c, s, b) ==
    /\ MayCall(c)
    /\ s \in held[b]
    /\ b \notin Queued
    /\ ~QueueFull
    /\ evtq' = [evtq EXCEPT ![qhead] = b]
    /\ qhead' = NextIndex(qhead)
    /\ UNCHANGED <<qtail, poolVars, callVars, dispVars, ref, held>>

AgainNext == Next \/ \E c \in Ctx, s \in Sub, b \in Block : PostAgain(c, s, b)

AgainSpec == Init /\ [][AgainNext]_vars

\* A retained event survives until the subscriber releases it, as the comment
\* of Anbo_Pool_Dispatch promises.
RetainedSurvives == \A b \in Block : held[b] # {} => b \notin FreeBlocks
=============================================================================
