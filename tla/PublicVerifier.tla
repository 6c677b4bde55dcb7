---------------------------- MODULE PublicVerifier ----------------------------
(***************************************************************************)
(* What the public verifier (public-verifier/app/verifier.py) says of a    *)
(* receipt.  It has the public key and the time, and neither the database  *)
(* nor a manager: here it looks at the receipts of ReceiptManager.tla, in  *)
(* whatever state those are, next to what validate() of a manager says.    *)
(*                                                                         *)
(* A receipt is presented as JSON, and may have been changed on the way.   *)
(* Of the fields of a genuine receipt only trace_id and tool may fail the  *)
(* profile, because they are the caller's: `Presentable' are the commands  *)
(* for which they do not.                                                  *)
(***************************************************************************)
EXTENDS ReceiptManager

CONSTANT Presentable   \* commands with 16 characters of trace_id and a tool

ASSUME PresentableAssumption == Presentable \subseteq Command

(* A copy of a receipt: as it was signed, with a signed field changed to   *)
(* another legal value, with a field added, or with one left out.          *)
Copy == {"intact", "altered", "extended", "cut"}

(* The required checks of profile_checks().                                *)
ProfileValid(r, copy) ==
  /\ copy \notin {"extended", "cut"}
  /\ r.command \in Presentable

(* profile_valid and signature_valid of verify_receipt().                  *)
Authentic(r, copy) == ProfileValid(r, copy) /\ copy # "altered"

(* Mutant of AuthorizingNow: the status is not looked at.                  *)
AuthorizingNow_AnyStatus(r, copy) ==
  /\ Authentic(r, copy)
  /\ clock <= r.expires_at
  /\ r.verdict = "allow"

(* authorizing_now of verify_receipt().                                    *)
AuthorizingNow(r, copy) ==
  /\ Authentic(r, copy)
  /\ clock <= r.expires_at
  /\ r.receipt_status = "admission"
  /\ r.verdict = "allow"

(* validate() of manager p with its audience and require_authorizing: it   *)
(* looks for its fields and signs those, whatever else there is.           *)
Accepts(p, r, copy) ==
  /\ copy \notin {"altered", "cut"}
  /\ LocallyValid(p, r)
  /\ Authorizing(r)
-----------------------------------------------------------------------------
(* The yes of the public verifier is the yes of every manager the receipt  *)
(* is meant for, except that it cannot know of a nonce that has been used  *)
(* up.  The yes of a manager is the yes of the public verifier, except for *)
(* a finalized receipt, for a field added to it, and for a command that    *)
(* the profile rejects.  This holds whatever copies of the receipt have    *)
(* been finalized, invalidated or consumed meanwhile.                      *)
PublicAgrees ==
  \A r \in Held, p \in Proc, copy \in Copy :
    (r.audience = AudienceOf[p]) =>
      /\ AuthorizingNow(r, copy)
           => (Accepts(p, r, copy) <=> r.nonce \notin consumed)
      /\ Accepts(p, r, copy)
           => \/ AuthorizingNow(r, copy)
              \/ r.receipt_status = "finalized"
              \/ copy = "extended"
              \/ r.command \notin Presentable
=============================================================================
