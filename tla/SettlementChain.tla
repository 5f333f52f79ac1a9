--------------------------- MODULE SettlementChain ---------------------------
(***************************************************************************)
(* The x/settlement module of the chain: the store of settlement anchors,   *)
(* the list of accounts allowed to write one, the message that anchors a    *)
(* settlement batch, and the export and import of the store at a restart    *)
(* from genesis.                                                            *)
(*                                                                          *)
(* Data.  A message carries the id of the settlement batch, the id of the   *)
(* anchor job that sends it, the submitter's account and a dozen fields     *)
(* that all come from the batch's anchor payload (lane, schema and policy   *)
(* version, canonical root, payload hash, three component roots, window     *)
(* end, total).  Those fields are one value here, the root: they are        *)
(* produced together and compared together.  A message that ValidateBasic   *)
(* refuses is one whose root is None.  The block height and time kept with  *)
(* an anchor are left out: no comparison reads them.                        *)
(***************************************************************************)

CONSTANTS Batches,   \* settlement batch ids
          Jobs,      \* anchor job ids
          Accounts,  \* chain accounts
          Roots,     \* well-formed anchor payloads, by their canonical root
          None       \* no anchor, no root, no job

\* A stored anchor, types.SettlementAnchor.
Anchor == [batch : Batches, job : Jobs, submitter : Accounts, root : Roots]

\* types.MsgAnchorSettlementBatch.
Msg == [batch : Batches, job : Jobs, submitter : Accounts,
        root : Roots \cup {None}]

ASSUME NoneAssumption ==
    /\ None \notin Jobs
    /\ None \notin Roots
    /\ None \notin Anchor

VARIABLES
    anchors,     \* the store: batch id -> anchor, or None where no key is set
    submitters,  \* the accounts under AuthorizedAnchorSubmitterKeyPrefix
    accepted     \* history: the messages answered without an error

chainVars == <<anchors, submitters, accepted>>

------------------------------------------------------------------------------

ValidateBasic(m) == m.root # None

IsAuthorizedAnchorSubmitter(a) == a \in submitters

NewSettlementAnchor(m) == m

\* Mutant: the payload is not compared.
MatchesMsgIds(a, m) == a.batch = m.batch /\ a.job = m.job /\ a.submitter = m.submitter

settlementAnchorMatchesMsg(a, m) ==
    /\ a.batch = m.batch
    /\ a.job = m.job
    /\ a.submitter = m.submitter
    /\ a.root = m.root

\* Mutant: a batch that has an anchor refuses every message.
AcceptsOnce(m) ==
    /\ ValidateBasic(m)
    /\ IsAuthorizedAnchorSubmitter(m.submitter)
    /\ anchors[m.batch] = None

\* The message handler returns no error exactly when this holds.
Accepts(m) ==
    /\ ValidateBasic(m)
    /\ IsAuthorizedAnchorSubmitter(m.submitter)
    /\ \/ anchors[m.batch] = None
       \/ settlementAnchorMatchesMsg(anchors[m.batch], m)

\* Mutant: every valid message of an authorized account is stored, over the
\* anchor of another job.
AnchorLastWins(m) ==
    /\ IF ValidateBasic(m) /\ IsAuthorizedAnchorSubmitter(m.submitter)
         THEN /\ anchors' = [anchors EXCEPT ![m.batch] = NewSettlementAnchor(m)]
              /\ accepted' = accepted \cup {m}
         ELSE UNCHANGED <<anchors, accepted>>
    /\ UNCHANGED submitters

\* The first message for a batch is stored; a repetition of the stored one is
\* accepted and writes nothing; any other message is an error.
AnchorSettlementBatch(m) ==
    /\ IF Accepts(m)
         THEN /\ anchors' = IF anchors[m.batch] = None
                              THEN [anchors EXCEPT ![m.batch] = NewSettlementAnchor(m)]
                              ELSE anchors
              /\ accepted' = accepted \cup {m}
         ELSE UNCHANGED <<anchors, accepted>>
    /\ UNCHANGED submitters

\* ExportGenesis lists the stored anchors and the authorized accounts.
ExportGenesis ==
    [anchors |-> {anchors[b] : b \in {c \in Batches : anchors[c] # None}},
     submitters |-> submitters]

\* InitGenesis writes each listed anchor under its own batch id.
InitGenesis(gs) ==
    /\ anchors' = [b \in Batches |->
                     IF \E a \in gs.anchors : a.batch = b
                       THEN CHOOSE a \in gs.anchors : a.batch = b
                       ELSE None]
    /\ submitters' = gs.submitters

\* The chain is stopped, exported and started again from the exported state.
RestartFromGenesis ==
    /\ InitGenesis(ExportGenesis)
    /\ UNCHANGED accepted

ChainInit ==
    /\ anchors = [b \in Batches |-> None]
    /\ submitters \in SUBSET Accounts
    /\ accepted = {}

ChainNext ==
    \/ \E m \in Msg : AnchorSettlementBatch(m)
    \/ RestartFromGenesis

ChainSpec == ChainInit /\ [][ChainNext]_chainVars

------------------------------------------------------------------------------
(* Properties *)

\* The store maps every batch to nothing or to an anchor filed under it.
ChainTypeOK ==
    /\ anchors \in [Batches -> Anchor \cup {None}]
    /\ submitters \subseteq Accounts
    /\ accepted \subseteq Msg

\* What the chain answered without an error is what it stores, for good: for
\* every accepted message the stored anchor of its batch still equals it.  So
\* no two accepted messages for one batch differ, a repetition never rewrites,
\* and a restart from genesis neither loses nor mixes up an anchor.
AcceptedIsStored ==
    \A m \in accepted : anchors[m.batch] = NewSettlementAnchor(m)

\* Every stored anchor was sent by an account that was authorized.
AnchoredByAuthorized ==
    \A b \in Batches :
        anchors[b] # None => anchors[b].submitter \in submitters

\* A message that was accepted is never refused later, whatever other messages
\* and restarts came since: the sender may resend after a lost answer (the
\* idempotent branch of AnchorSettlementBatch).
ResendNeverRefused == \A m \in accepted : Accepts(m)
==============================================================================
