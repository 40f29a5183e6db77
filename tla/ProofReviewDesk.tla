-------------------------- MODULE ProofReviewDesk --------------------------
(***************************************************************************)
(* ProofMission together with what a reviewer's page shows: the queue of   *)
(* listProofReviewQueue, loaded some time before the reviewer decides.     *)
(* ReviewProofMissionDto names the mission and the decision, not the run,  *)
(* so reviewMission decides on the run that is current by then.            *)
(***************************************************************************)
EXTENDS ProofMission

VARIABLE desk   \* by reviewer and mission, the run the page shows

deskVars == <<vars, desk>>

EmptyDesk == [m \in Mission |-> NULL]

DeskInit == Init /\ desk = [u \in User |-> EmptyDesk]

\* listProofReviewQueue: every mission in review, with its current run
LoadQueue(u) ==
    /\ desk' = [desk EXCEPT ![u] =
            [m \in Mission |-> IF mission[m].state = "REVIEW_PENDING"
                               THEN mission[m].run ELSE NULL]]
    /\ UNCHANGED vars

\* Everything else; a reviewer decides on what the page lists.
Decide == \A r \in reviews' \ reviews : desk[r.reviewer][r.run.mission] # NULL

DeskNext ==
    \/ \E u \in User : LoadQueue(u)
    \/ Next /\ Decide /\ UNCHANGED desk

DeskSpec == DeskInit /\ [][DeskNext]_deskVars

-----------------------------------------------------------------------------
\* The page asks the reviewer to decide on "the run fixed at submission"
\* (CareerReviewQueue): the decision is about the run the page showed.
DecisionOnSeenRun ==
    [][\A r \in reviews' \ reviews : r.run = desk[r.reviewer][r.run.mission]]_deskVars
=============================================================================
