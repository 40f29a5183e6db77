------------------------------ MODULE Uploads ------------------------------
(***************************************************************************)
(* uploads.service.ts: a row of upload_assets for each upload and one      *)
(* object of its own in the object store, where the browser puts the file  *)
(* with a URL the service has signed.                                      *)
(*                                                                         *)
(* complete and remove speak to the store and to the database one after    *)
(* the other, and a request may end between the two.  complete saves the   *)
(* row it has loaded before: an update of the status, or, when the row is  *)
(* gone, an insert.  Names, types and sizes are one question, whether the  *)
(* object is what was approved.  A signed URL does not expire.             *)
(***************************************************************************)
EXTENDS RoadmapLibrary

CONSTANT Asset

Upload == [owner : User, roadmap : Roadmap \cup {NULL}, ready : BOOLEAN]
Object == {"approved", "other"}

CompleteRequest == [op : {"complete"}, asset : Asset, row : Upload,
                    step : {"head", "save", "object", "row"}, late : BOOLEAN]
DiscardRequest == [op : {"discard"}, asset : Asset, step : {"object", "row"}]
UploadRequest == CompleteRequest \cup DiscardRequest

ASSUME UploadNull == NULL \notin Upload \cup Object

VARIABLES
    asset,          \* upload_assets: [Asset -> Upload or NULL]
    object,         \* the object store: [Asset -> Object or NULL]
    taken,          \* history: assets that had a row
    reinserted,     \* history: assets saved after their object or row was deleted
    interrupted     \* history: assets whose removal ended before their row went

uploads == <<asset, object, taken, reinserted, interrupted>>

UploadsInit ==
    /\ asset = [a \in Asset |-> NULL]
    /\ object = [a \in Asset |-> NULL]
    /\ taken = {}
    /\ reinserted = {}
    /\ interrupted = {}

Handles(w, op, step) ==
    /\ request[w] # NULL
    /\ request[w].op = op
    /\ request[w].step = step

Continues(w, step) == request' = [request EXCEPT ![w].step = step]

\* createUpload: a profile image, or an attachment of a roadmap of one's own
CreateUpload(u, a, r) ==
    /\ Made("upload")
    /\ a \notin taken
    /\ r # NULL => Found(r) /\ Owner[r] = u
    /\ asset' = [asset EXCEPT ![a] = [owner |-> u, roadmap |-> r, ready |-> FALSE]]
    /\ taken' = taken \cup {a}
    /\ UNCHANGED <<library, request, object, reinserted, interrupted>>

\* The browser's PUT to the signed URL
Put(a, o) ==
    /\ Made("put")
    /\ a \in taken
    /\ object' = [object EXCEPT ![a] = o]
    /\ UNCHANGED <<library, request, asset, taken, reinserted, interrupted>>

\* complete: the row, then HeadObject
CompleteBegin(w, a) ==
    /\ asset[a] # NULL
    /\ Begins(w, "complete", [op |-> "complete", asset |-> a, row |-> asset[a],
                              step |-> "head", late |-> FALSE])
    /\ UNCHANGED <<library, uploads>>

NotRefused(a) == object[a] # "other"
AsApproved(a) == object[a] = "approved"

\* Another object than approved is deleted; one that is not there is an error.
CompleteHead(w) ==
    /\ Handles(w, "complete", "head")
    /\ LET a == request[w].asset IN
       \/ AsApproved(a) /\ Continues(w, "save")
       \/ ~AsApproved(a) /\ object[a] # NULL /\ Continues(w, "object")
       \/ ~AsApproved(a) /\ object[a] = NULL /\ Ends(w)
    /\ UNCHANGED <<library, uploads, work>>

CompleteSave(w) ==
    /\ Handles(w, "complete", "save")
    /\ LET a == request[w].asset IN
       /\ asset' = [asset EXCEPT ![a] = [request[w].row EXCEPT !.ready = TRUE]]
       /\ reinserted' = IF request[w].late \/ asset[a] = NULL
                        THEN reinserted \cup {a} ELSE reinserted
    /\ Ends(w)
    /\ UNCHANGED <<library, object, taken, interrupted, work>>

\* remove
RemoveBegin(w, a) ==
    /\ asset[a] # NULL
    /\ Begins(w, "discard", [op |-> "discard", asset |-> a, step |-> "object"])
    /\ UNCHANGED <<library, uploads>>

\* DeleteObject, in complete and in remove.  A complete that has seen the object
\* is late from now on.
DeleteObject(w) ==
    /\ Handles(w, "complete", "object") \/ Handles(w, "discard", "object")
    /\ object' = [object EXCEPT ![request[w].asset] = NULL]
    /\ request' = [v \in Request |->
          IF v = w THEN [request[w] EXCEPT !.step = "row"]
          ELSE IF Handles(v, "complete", "save") /\ request[v].asset = request[w].asset
          THEN [request[v] EXCEPT !.late = TRUE] ELSE request[v]]
    /\ UNCHANGED <<library, asset, taken, reinserted, interrupted, work>>

\* then the row
HalfWay(w) == Handles(w, "complete", "row") \/ Handles(w, "discard", "row")

DeleteRow(w) ==
    /\ HalfWay(w)
    /\ asset' = [asset EXCEPT ![request[w].asset] = NULL]
    /\ Ends(w)
    /\ UNCHANGED <<library, object, taken, reinserted, interrupted, work>>

\* Assets whose removal ends in this step, with the object gone
GivesUpHalfWay == {request[w].asset : w \in {v \in Request : HalfWay(v) /\ request'[v] = NULL}}

UploadsNext ==
    \/ \E u \in User, a \in Asset, r \in Roadmap \cup {NULL} : CreateUpload(u, a, r)
    \/ \E a \in Asset, o \in Object : Put(a, o)
    \/ \E w \in Request :
        \/ \E a \in Asset : CompleteBegin(w, a) \/ RemoveBegin(w, a)
        \/ CompleteHead(w) \/ CompleteSave(w)
        \/ DeleteObject(w) \/ DeleteRow(w)

-----------------------------------------------------------------------------
(* Properties *)

\* An asset that is shown as READY has its object in the store: complete asks
\* the store first, and the object goes before the row.  The exceptions are a
\* removal under way, one that ended half way, and a complete that saved its
\* row after the removal.
ReadyHasObject ==
    \A a \in Asset :
        asset[a] # NULL /\ asset[a].ready /\ object[a] = NULL =>
            \/ a \in reinserted \cup interrupted
            \/ \E w \in Request : HalfWay(w) /\ request[w].asset = a
=============================================================================
