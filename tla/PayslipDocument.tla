--------------------------- MODULE PayslipDocument ---------------------------
(***************************************************************************)
(* What the rendering side of payslips promises to everybody else: a slip  *)
(* has one content, the PDF it serves is a PDF of that content or none at  *)
(* all, and from the moment it is sent neither changes.  How the PDF comes *)
(* about (queue, claims, files, restarts) is DocumentRender's business.    *)
(***************************************************************************)
EXTENDS Integers

CONSTANT Docs

VARIABLES
    status,     \* "absent", "draft", "sent" or "void"
    content,    \* the snapshot, 0 while absent
    served      \* the snapshot the served PDF was made of, 0 for none

doc == <<status, content, served>>

Init ==
    /\ status = [d \in Docs |-> "absent"]
    /\ content = [d \in Docs |-> 0]
    /\ served = [d \in Docs |-> 0]

(* A new snapshot withdraws the PDF of the old one. *)
Rewrite(d) ==
    /\ status[d] \in {"absent", "draft"}
    /\ status' = [status EXCEPT ![d] = "draft"]
    /\ content'[d] \in Nat /\ content'[d] > content[d]
    /\ content' = [content EXCEPT ![d] = content'[d]]
    /\ served' = [served EXCEPT ![d] = 0]

Publish(d) ==
    /\ status[d] = "draft" /\ served[d] = 0
    /\ served' = [served EXCEPT ![d] = content[d]]
    /\ UNCHANGED <<status, content>>

Settle(d) ==
    /\ \/ status[d] = "draft" /\ status' = [status EXCEPT ![d] = "sent"]
       \/ status[d] = "sent" /\ status' = [status EXCEPT ![d] = "void"]
    /\ UNCHANGED <<content, served>>

Next == \E d \in Docs : Rewrite(d) \/ Publish(d) \/ Settle(d)

Spec == Init /\ [][Next]_doc
=============================================================================
