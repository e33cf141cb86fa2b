------------------------------ MODULE Exporters ------------------------------
(***************************************************************************)
(* How core-otel sends a batch: it waits for the resource attributes that  *)
(* arrive as events, passes the credential gate of withFailureLogging, and *)
(* asks the token source once more when the request is built.  One token   *)
(* source, with one run of the credential helper at a time, serves all     *)
(* signals; a batch the collector refuses invalidates its token for all.   *)
(*                                                                         *)
(* External: the batch processors of the SDK, the helper, the collector.   *)
(***************************************************************************)
EXTENDS Integers

CONSTANTS
  Batches,     \* the batches to export
  Attributes,  \* deferred resource attributes
  MaxTokens,   \* bound: how many tokens the helper issues
  None

VARIABLES
  token,       \* the cached token
  valid,       \* now() < validUntil
  issued,      \* tokens the helper has issued
  helper,      \* a helper is running
  pending,     \* attributes that are not settled
  batch,       \* where each batch is
  exiting      \* the process drains

exportVars == <<token, valid, issued, helper, pending, batch, exiting>>

Init ==
  /\ token = None /\ valid = FALSE /\ issued = 0 /\ helper = FALSE
  /\ pending = Attributes
  /\ batch = [b \in Batches |-> [pc |-> "none", header |-> None, disturbed |-> FALSE]]
  /\ exiting = FALSE

Waiting(b) == batch[b].pc \in {"gate_waits", "send_waits"}

(* A token that is dropped or ages out between the gate and the request.   *)
Disturb == [b \in Batches |-> [batch[b] EXCEPT
              !.disturbed = @ \/ batch[b].pc \in {"send", "send_waits"}]]

ResumeUngated(r, header) ==
  IF r.pc \in {"gate", "gate_waits"} THEN [r EXCEPT !.pc = "send"]
  ELSE [r EXCEPT !.pc = "sent", !.header = header]

(* What a batch does with the result of headers(): the gate skips it       *)
(* without a credential, the request is sent with what there is.           *)
Resume(r, header) ==
  CASE r.pc \in {"gate", "gate_waits"} /\ header = None -> [r EXCEPT !.pc = "skipped"]
    [] r.pc \in {"gate", "gate_waits"} /\ header # None -> [r EXCEPT !.pc = "send"]
    [] OTHER -> [r EXCEPT !.pc = "sent", !.header = header]

Collect(b) ==
  /\ batch[b].pc = "none"
  /\ batch' = [batch EXCEPT ![b].pc = "buffered"]
  /\ UNCHANGED <<token, valid, issued, helper, pending, exiting>>

(* Exporters await the promises of the resource before they export.        *)
Export(b) ==
  /\ batch[b].pc = "buffered" /\ pending = {}
  /\ batch' = [batch EXCEPT ![b].pc = "gate"]
  /\ UNCHANGED <<token, valid, issued, helper, pending, exiting>>

HeadersCached(b) ==
  /\ batch[b].pc \in {"gate", "send"} /\ token # None /\ valid
  /\ batch' = [batch EXCEPT ![b] = Resume(@, token)]
  /\ UNCHANGED <<token, valid, issued, helper, pending, exiting>>

HeadersRefresh(b) ==
  /\ batch[b].pc \in {"gate", "send"} /\ ~(token # None /\ valid)
  /\ helper' = TRUE
  /\ batch' = [batch EXCEPT ![b].pc = IF @ = "gate" THEN "gate_waits" ELSE "send_waits"]
  /\ UNCHANGED <<token, valid, issued, pending, exiting>>

(* The helper prints a token, whose expiry may lie within EXPIRY_SKEW_MS,  *)
(* or it fails or is killed; then all who wait for it go on.  A token that *)
(* has aged out is dropped.                                                *)
HelperSucceeds ==
  /\ helper /\ issued < MaxTokens
  /\ issued' = issued + 1 /\ helper' = FALSE
  /\ \E fresh \in BOOLEAN :
       /\ valid' = fresh
       /\ token' = IF fresh THEN issued + 1 ELSE None
       /\ batch' = [b \in Batches |->
            IF Waiting(b) THEN Resume(batch[b], token') ELSE batch[b]]
  /\ UNCHANGED <<pending, exiting>>

HelperFails ==
  /\ helper /\ helper' = FALSE
  /\ token' = None
  /\ batch' = [b \in Batches |->
       IF Waiting(b) THEN Resume(batch[b], None) ELSE batch[b]]
  /\ UNCHANGED <<valid, issued, pending, exiting>>

Accepted(b) ==
  /\ batch[b].pc = "sent"
  /\ batch' = [batch EXCEPT ![b].pc = "exported"]
  /\ UNCHANGED <<token, valid, issued, helper, pending, exiting>>

(* onFailure invalidates whatever token is cached by now.                  *)
Failed(b) ==
  /\ batch[b].pc = "sent"
  /\ token' = None /\ valid' = FALSE
  /\ batch' = [Disturb EXCEPT ![b].pc = "failed"]
  /\ UNCHANGED <<issued, helper, pending, exiting>>

Expire ==
  /\ valid /\ valid' = FALSE
  /\ batch' = Disturb
  /\ UNCHANGED <<token, issued, helper, pending, exiting>>

(* A deferred attribute settles with its event or its timer; the timers do *)
(* not keep the process alive, so that an exit has to abandon them.        *)
Settle(a) ==
  /\ a \in pending /\ ~exiting
  /\ pending' = pending \ {a}
  /\ UNCHANGED <<token, valid, issued, helper, batch, exiting>>

DrainOnly ==
  /\ ~exiting /\ exiting' = TRUE
  /\ UNCHANGED <<token, valid, issued, helper, batch, pending>>

Drain ==
  /\ ~exiting /\ exiting' = TRUE
  /\ pending' = {}
  /\ UNCHANGED <<token, valid, issued, helper, batch>>

Request(b) == Export(b) \/ HeadersCached(b) \/ HeadersRefresh(b) \/ Accepted(b) \/ Failed(b)

Next ==
  \/ \E b \in Batches : Collect(b) \/ Request(b)
  \/ \E a \in Attributes : Settle(a)
  \/ HelperSucceeds \/ HelperFails \/ Expire \/ Drain

(* The helper is killed after timeoutMs, requests end with the timeout of  *)
(* the SDK, deferred attributes with their own.                            *)
Fairness ==
  /\ \A b \in Batches : WF_exportVars(Request(b))
  /\ \A a \in Attributes : WF_exportVars(Settle(a))
  /\ WF_exportVars(HelperFails)

Spec == Init /\ [][Next]_exportVars /\ Fairness

-----------------------------------------------------------------------------
(* "an export never fires without a credential" (export-logging.ts:24): a  *)
(* request leaves without a header only if the token it passed the gate    *)
(* with was invalidated or aged out before the request was built, the race *)
(* that providers.ts:73 speaks of.                                         *)
FailClosed ==
  \A b \in Batches :
    batch[b].pc \in {"sent", "exported", "failed"} /\ batch[b].header = None => batch[b].disturbed

(* Every batch ends, through an exit that comes before the attributes do.  *)
BatchesEnd ==
  \A b \in Batches : batch[b].pc = "buffered" ~> batch[b].pc \in {"exported", "failed", "skipped"}
=============================================================================
