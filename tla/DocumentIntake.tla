--------------------------- MODULE DocumentIntake ---------------------------
(***************************************************************************)
(* What the upload queue promises the owner of a document, without         *)
(* workers, leases, attempts or messages: an accepted document is either   *)
(* refused, or ready with all of its text in the library, and what the     *)
(* library holds of it does not change after that.                         *)
(***************************************************************************)
CONSTANTS Docs, TextChunks, ImageChunks

VARIABLES
    stage,    \* of each document, as upload_jobs.status sums it up
    content   \* the chunks of it that can be found in document_chunks

Stages == {"absent", "accepted", "ready", "failed"}

Init ==
    /\ stage = [d \in Docs |-> "absent"]
    /\ content = [d \in Docs |-> {}]

Accept(d) ==
    /\ stage[d] = "absent"
    /\ stage' = [stage EXCEPT ![d] = "accepted"]
    /\ UNCHANGED content

(* Chunks come and go while the document is worked on.                     *)
Process(d) ==
    /\ stage[d] = "accepted"
    /\ \E chunks \in SUBSET (TextChunks \cup ImageChunks) :
         content' = [content EXCEPT ![d] = chunks]
    /\ UNCHANGED stage

Complete(d) ==
    /\ stage[d] = "accepted"
    /\ TextChunks \subseteq content[d]
    /\ stage' = [stage EXCEPT ![d] = "ready"]
    /\ UNCHANGED content

Refuse(d) ==
    /\ stage[d] = "accepted"
    /\ stage' = [stage EXCEPT ![d] = "failed"]
    /\ UNCHANGED content

Next == \E d \in Docs : Accept(d) \/ Process(d) \/ Complete(d) \/ Refuse(d)

Spec == Init /\ [][Next]_<<stage, content>>

=============================================================================
