----------------------------- MODULE RetryClient -----------------------------
(***************************************************************************)
(* A backend that pushes one register_proof request through the registry   *)
(* by the rules of the error catalogue: repeat on AfterOperatorAction,     *)
(* once the reads it polls have changed; hand AfterCallerChange back to    *)
(* the caller; surface the rest, unknown codes and host aborts included.   *)
(* An answer may get lost after the call took effect; the backend then     *)
(* submits the request again.  Everybody else goes on as in ProofRegistry. *)
(***************************************************************************)
EXTENDS ProofRegistry, ErrorCatalog

CONSTANTS
  OwnCommitment,   \* the commitment_hash of the request
  Requesters       \* bound: the addresses the request may name as issuer

ASSUME RequestAssumption ==
  OwnCommitment \in Commitment /\ Requesters \subseteq Address

VARIABLES
  request,   \* the arguments of the call; its issuer signs it
  phase,     \* what the backend is about to do with it
  answer,    \* the last answer it received
  applied    \* history: some submission of it took effect

clientVars == <<request, phase, answer, applied>>
systemVars == <<proofVars, clientVars>>

Request == [id : ProofId, issuer : Requesters,
            schema : SchemaVersions, expires : Time]

Phase == {"ready", "waiting", "done", "rejected", "surfaced"}

(* The catalogue and the set the other modules use agree.                  *)
ASSUME NeverAssumption ==
  NeverCodes = {n \in DOMAIN ErrorCode :
                  /\ Published(ErrorCode[n])
                  /\ spec(ErrorCode[n]).status = "Returned"
                  /\ retry_for(ErrorCode[n]) = "Never"}

ClientInit ==
  /\ Init
  /\ request \in Request
  /\ phase = "ready"
  /\ answer = "none"
  /\ applied = FALSE

Outcome ==
  RegisterProofResult(request.issuer, request.id, request.issuer,
                      request.schema, request.expires)

Registration ==
  register_proof(request.issuer, request.id, OwnCommitment,
                 request.issuer, request.schema, request.expires)

(* decide: a host abort carries no contract error code.                    *)
decide(result) ==
  IF result \notin DOMAIN ErrorCode THEN "surfaced"
  ELSE CASE retry_for(ErrorCode[result]) = "AfterOperatorAction" -> "waiting"
         [] retry_for(ErrorCode[result]) = "AfterCallerChange"   -> "rejected"
         [] retry_for(ErrorCode[result]) = "Never"               -> "surfaced"

Accepted ==
  /\ phase = "ready"
  /\ Registration
  /\ phase' = "done"
  /\ answer' = Ok
  /\ applied' = TRUE
  /\ UNCHANGED request

Refused ==
  /\ phase = "ready"
  /\ Outcome # Ok
  /\ phase' = decide(Outcome)
  /\ answer' = Outcome
  /\ UNCHANGED <<proofVars, request, applied>>

AnswerLost ==
  /\ phase = "ready"
  /\ Registration
  /\ applied' = TRUE
  /\ UNCHANGED <<request, phase, answer>>

(* Fault: a pause is waited for under the code reserved for it. *)
ReservedReads ==
  \/ answer = "ProtocolPaused" /\ ~ paused
  \/ answer = "IssuerInactive" /\ request.issuer \in active
  \/ answer = "SchemaVersionNotApproved" /\ request.schema \in approved

(* The reads polled for an answer: is_paused and is_active_address for the *)
(* overloaded 304, is_schema_version_approved for 305.                     *)
RelevantReads ==
  \/ /\ answer = "InvalidSchemaVersion"
     /\ ~ paused
     /\ request.issuer \in active
  \/ /\ answer = "SchemaVersionNotApproved"
     /\ request.schema \in approved

Poll ==
  /\ phase = "waiting"
  /\ RelevantReads
  /\ phase' = "ready"
  /\ UNCHANGED <<proofVars, request, answer, applied>>

ClientNext ==
  \/ Accepted
  \/ Refused
  \/ AnswerLost
  \/ Poll
  \/ Next /\ UNCHANGED clientVars

(* The backend keeps working through its queue and ledgers keep closing;   *)
(* nobody else has to act.                                                 *)
ClientSpec ==
  /\ ClientInit
  /\ [][ClientNext]_systemVars
  /\ WF_systemVars(Accepted \/ Refused)
  /\ WF_systemVars(Poll)
  /\ WF_systemVars(Tick /\ UNCHANGED clientVars)

(***************************************************************************)
(* Properties                                                              *)
(***************************************************************************)
Dropped == phase \in {"rejected", "surfaced"}

Open ==
  /\ ~ paused
  /\ request.schema \in approved
  /\ request.issuer \in active

Settles == <>(phase \notin {"ready", "waiting"})

(* What the backend gives up on was worth giving up: no later step of an   *)
(* administrator, of another caller or of time makes the identical request *)
(* succeed.  The one exception is 301 from a registry that has not been    *)
(* initialised: the catalogue files it under the caller's mistakes, and    *)
(* initialize makes the identical request succeed.                         *)
DroppedIsHopeless == Dropped /\ answer # "ProofNotFound" => Outcome # Ok

(* A lost answer does no harm: the effect of the submission stays in the   *)
(* registry, and the backend, which submits again, is told so by 300 or    *)
(* waits; only from the moment the proof expires on may it hear 303        *)
(* instead.  (At that very moment the proof still counts as valid.)        *)
LostAnswersAreRecovered ==
  applied =>
    /\ Registered(request.id)
    /\ proofs[request.id].commitment_hash = OwnCommitment
    /\ proofs[request.id].issuer_address = request.issuer
    /\ Dropped => \/ answer = "ProofAlreadyRegistered"
                  \/ answer = "ProofExpired" /\ request.expires <= now

(* If the operators some day leave the protocol unpaused, the schema       *)
(* approved and the issuer active, the request does not stay in the queue: *)
(* waiting on one read at a time, for an answer with two meanings, cannot  *)
(* starve it.  The one exception is schema version 0, answered by the same *)
(* 304 for ever, which no operator can change.                             *)
QueueDrains == request.schema # 0 => (<>[]Open => Settles)

===============================================================================
