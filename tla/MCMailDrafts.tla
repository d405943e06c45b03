---------------------------- MODULE MCMailDrafts ----------------------------
(* Small instances of MailDrafts; drafts and requests are interchangeable. *)
EXTENDS MailDrafts, TLC

Symmetry == Permutations(Drafts) \union Permutations(Senders)
=============================================================================
