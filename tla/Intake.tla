-------------------------------- MODULE Intake --------------------------------
(***************************************************************************)
(* POST /transactions with an x-idempotency-key: the key is looked up, the *)
(* transaction created, the answer stored under the key, with an await     *)
(* between any two of them.  Requests are those that carry one key.        *)
(***************************************************************************)
EXTENDS Naturals

CONSTANTS Request,       \* requests with the same key
          NoTx           \* no transaction

ASSUME IntakeAssumption == NoTx \notin Request

\* A transaction is named after the request that created it.
VARIABLES keyRecord,     \* ApiIdempotencyKey: the answer stored (NoTx: no row)
          created,       \* the transactions in the database
          intake         \* the requests: where each is, what it answered, and
                         \* (history) whether it began after a stored answer

intakeVars == <<keyRecord, created, intake>>

IntakeTypeOK ==
  /\ keyRecord \in Request \cup {NoTx}
  /\ created \subseteq Request
  /\ intake \in [Request ->
       [at : {"unsent", "lookup", "create", "store", "answered", "failed"},
        answer : Request \cup {NoTx}, late : BOOLEAN]]

IntakeInit ==
  /\ keyRecord = NoTx
  /\ created = {}
  /\ intake = [r \in Request |-> [at |-> "unsent", answer |-> NoTx, late |-> FALSE]]

Begin(r) ==
  /\ intake[r].at = "unsent"
  /\ intake' = [intake EXCEPT ![r].at = "lookup", ![r].late = keyRecord # NoTx]
  /\ UNCHANGED <<keyRecord, created>>

\* Mutant: the stored answer is not looked for.
LookupKeySkipped(r) ==
  /\ intake[r].at = "lookup"
  /\ intake' = [intake EXCEPT ![r].at = "create"]
  /\ UNCHANGED <<keyRecord, created>>

\* A stored answer is the answer; its expiry is not looked at.
LookupKey(r) ==
  /\ intake[r].at = "lookup"
  /\ intake' = [intake EXCEPT ![r] =
       IF keyRecord # NoTx THEN [@ EXCEPT !.at = "answered", !.answer = keyRecord]
       ELSE [@ EXCEPT !.at = "create"]]
  /\ UNCHANGED <<keyRecord, created>>

\* TransactionsService.create, or the exception it throws.
CreateOnce(r) ==
  /\ intake[r].at = "create"
  /\ \/ /\ created' = created \cup {r}
        /\ intake' = [intake EXCEPT ![r].at = "store"]
     \/ /\ intake' = [intake EXCEPT ![r].at = "failed"]
        /\ UNCHANGED created
  /\ UNCHANGED keyRecord

\* An upsert that updates nothing: the first answer stays; this request
\* answers with its own transaction all the same.
StoreAnswer(r) ==
  /\ intake[r].at = "store"
  /\ keyRecord' = IF keyRecord = NoTx THEN r ELSE keyRecord
  /\ intake' = [intake EXCEPT ![r].at = "answered", ![r].answer = r]
  /\ UNCHANGED created

\* The process dies, or the upsert throws: the transaction stays.
RequestDies(r) ==
  /\ intake[r].at \in {"lookup", "create", "store"}
  /\ intake' = [intake EXCEPT ![r].at = "failed"]
  /\ UNCHANGED <<keyRecord, created>>

IntakeNext ==
  \E r \in Request : \/ Begin(r) \/ LookupKey(r) \/ CreateOnce(r)
                     \/ StoreAnswer(r) \/ RequestDies(r)

IntakeSpec == IntakeInit /\ [][IntakeNext]_intakeVars

-----------------------------------------------------------------------------
\* A request that begins after an answer was stored creates nothing and
\* answers with the stored transaction, whatever requests with the same key
\* are still under way.  (Requests that began before may each create one.)
LateRequestsRepeat ==
  \A r \in Request : intake[r].late =>
    /\ r \notin created
    /\ intake[r].at = "answered" => intake[r].answer = keyRecord
=============================================================================
