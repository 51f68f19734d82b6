------------------------------ MODULE Decisions ------------------------------
(***************************************************************************)
(* The pure half of the retry path: the classifier (crates/failure), the   *)
(* baseline agent with its guardrail (crates/agent) and the tip policy and *)
(* action plan of the orchestrator. A rejection text is the set of pattern *)
(* groups it matches; lamports are small naturals.                         *)
(***************************************************************************)
EXTENDS Naturals, Sequences, FiniteSetsExt

CONSTANTS
  MaxTip,      \* Config::max_tip_lamports
  P50, P75,    \* the market, when the tip feed is live
  Fallback     \* STALE_TIP_FALLBACK

ASSUME TipAssumption == {MaxTip, P50, P75, Fallback} \subseteq Nat

Lower(a, b) == IF a <= b THEN a ELSE b
Higher(a, b) == IF a >= b THEN a ELSE b

(* normal_tip_policy: the percentile (p75 by default) of a live feed, the  *)
(* fallback for a stale or absent one, never above the cap; a stale feed   *)
(* still gives the market the row is compared with (a percentile is a set  *)
(* of at most one tip).                                                    *)
NormalTip(feed) ==
  Lower(IF feed = "live" THEN Higher(P75, 1) ELSE Fallback, MaxTip)
Known(feed, percentile) == IF feed = "absent" THEN {} ELSE {percentile}

-----------------------------------------------------------------------------
(* Evidence, and what the classifier makes of it. A refusal is the set of  *)
(* pattern groups its text matches; a bundle that landed with an error has *)
(* the error decoded off the stream; one that never landed has what its    *)
(* row says of blockhash and tip.                                          *)
FailureKind == {"ExpiredBlockhash", "FeeTooLow", "ComputeExceeded", "BundleFailure",
                "TransportError", "AuctionLost"}

Patterns == {"transport", "low tip", "simulation", "malformed"}
OnChain == {{"on chain", e} : e \in {"blockhash not found", "compute budget",
                                     "loaded accounts size", "other", "undecodable"}}
Unlanded == {{"expired"}, {"outbid"}, {"lost"}}

Evidence == (SUBSET Patterns) \cup OnChain \cup Unlanded

(* classify_never_landed: the blockhash counts as expired only if it was   *)
(* when the bundle was submitted (age in slots), however old it got since. *)
BLOCKHASH_VALIDITY_SLOTS == 150

NeverLanded(age, tip, p50) ==
  IF age > BLOCKHASH_VALIDITY_SLOTS THEN {"expired"}
  ELSE IF \E p \in p50 : tip < p THEN {"outbid"} ELSE {"lost"}

(* classify_submit_rejection: the transport patterns come first, as an     *)
(* infrastructure failure whose text also looks like an auction rejection  *)
(* says nothing of tip or bundle.                                          *)
RejectionKind_TipFirst(marks) ==  \* mutant
  IF "low tip" \in marks THEN "FeeTooLow"
  ELSE IF "transport" \in marks THEN "TransportError" ELSE "BundleFailure"

RejectionKind(marks) ==
  IF "transport" \in marks THEN "TransportError"
  ELSE IF "low tip" \in marks THEN "FeeTooLow" ELSE "BundleFailure"

OnChainKind(marks) ==
  IF "blockhash not found" \in marks THEN "ExpiredBlockhash"
  ELSE IF marks \cap {"compute budget", "loaded accounts size"} # {} THEN "ComputeExceeded"
  ELSE "BundleFailure"

Kind(evidence) ==
  IF evidence \subseteq Patterns THEN RejectionKind(evidence)
  ELSE IF evidence \in OnChain THEN OnChainKind(evidence)
  ELSE IF "expired" \in evidence THEN "ExpiredBlockhash"
  ELSE IF "outbid" \in evidence THEN "FeeTooLow"
  ELSE "AuctionLost"

-----------------------------------------------------------------------------
(* Decisions: sequences of actions. The baseline refreshes, reprices or    *)
(* holds by kind and attempt, and gives up after a few tries.              *)
Action == [type : {"RefreshBlockhash", "Resubmit", "Abandon"}]
          \cup [type : {"SetTip"}, lamports : Nat] \cup [type : {"Hold"}, slots : Nat]

Refresh == [type |-> "RefreshBlockhash"]
SetTip(n) == [type |-> "SetTip", lamports |-> n]
Hold(n) == [type |-> "Hold", slots |-> n]
Resubmit == [type |-> "Resubmit"]
Abandon == [type |-> "Abandon"]

Tries == [kind \in {"BundleFailure", "AuctionLost", "TransportError"} |->
            IF kind = "BundleFailure" THEN 2 ELSE 3]
Hopeless(kind, attempt) ==
  kind = "ComputeExceeded" \/ (kind \in DOMAIN Tries /\ attempt > Tries[kind])

Repriced(tip, p75) == Max(p75 \cup {2 * tip})

Baseline(kind, attempt, tip, p75) ==
  IF kind = "FeeTooLow" THEN <<Refresh, SetTip(Repriced(tip, p75)), Resubmit>>
  ELSE IF Hopeless(kind, attempt) THEN <<Abandon>>
  ELSE IF kind = "TransportError" THEN <<Hold(4), Resubmit>>
  ELSE <<Refresh, Resubmit>>

(* The model's answer: none before the time-out, an HTTP status outside    *)
(* 2xx, or an envelope whose text is missing, is not what was asked for,   *)
(* or is a decision in JSON, fenced or bare. Only the last is a decision.  *)
Reply == [http : {"none", "error", "ok"}, text : {"missing", "prose", "decision"},
          actions : Seq(Action)]

Understood(reply) == reply.http = "ok" /\ reply.text = "decision"

(* The guardrail: no SetTip above the cap.                                 *)
Clamped_Off(actions) == actions  \* mutant

Clamped(actions) ==
  [i \in DOMAIN actions |->
     IF actions[i].type = "SetTip" /\ actions[i].lamports > MaxTip
     THEN SetTip(MaxTip) ELSE actions[i]]

(* plan_actions: modifiers accumulate (the last tip counts, the row's own  *)
(* if there is none) up to the first Resubmit or Abandon, which ends the   *)
(* plan.                                                                   *)
Plan(actions, tip) ==
  LET Typed(t) == {i \in DOMAIN actions : actions[i].type = t}
      ends == Typed("Resubmit") \cup Typed("Abandon")
      reached == {i \in DOMAIN actions : \A j \in ends : i <= j}
      tips == Typed("SetTip") \cap reached
      last == {i \in tips : \A j \in tips : j <= i}
  IN [tip |-> IF last = {} THEN tip ELSE actions[CHOOSE i \in last : TRUE].lamports,
      holds |-> \E i \in Typed("Hold") \cap reached : actions[i].slots > 0,
      terminal |-> IF ends = {} THEN "None"
                   ELSE IF Typed("Abandon") \cap reached # {} THEN "Abandon"
                   ELSE "Resubmit"]
=============================================================================
