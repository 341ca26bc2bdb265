----------------------------- MODULE PushTokens -----------------------------
(***************************************************************************)
(* PushTokenDb: the table of push tokens, followed through one token.      *)
(*                                                                         *)
(* The worker thread of HistLogger runs one request after the other.  The  *)
(* columns <<push_format, device_name, push_key>> were added over the      *)
(* versions; ptKnown is how many of them, from the left, the worker knows  *)
(* to be there (approver comes with device_name).  Another process may     *)
(* lock the database at any moment, also between prepare() and the request *)
(* that follows it.  A field that is 0 is empty.                           *)
(***************************************************************************)
EXTENDS Naturals

CONSTANTS
  Phones   \* what an app may register: a name, a key, and a format above 0

ASSUME PushTokensAssumption == Phones \subseteq Nat \ {0}

AllColumns == 3
TokenFields == Phones \cup {0}

NoRow == [there |-> FALSE, approver |-> FALSE, old |-> FALSE,
          format |-> 0, name |-> 0, key |-> 0]

VARIABLES
  ptColumns,   \* the columns the table has
  ptKnown,     \* pushFormat, pushName and pushKey of the worker
  ptLocked,    \* tokensLocked: prepare() met a lock
  ptRow,       \* the row of the token
  ptRequest    \* history: the last request

ptVars == <<ptColumns, ptKnown, ptLocked, ptRow, ptRequest>>

TokenTypeOK ==
  /\ ptColumns \in 0..AllColumns /\ ptKnown \in 0..AllColumns
  /\ ptLocked \in BOOLEAN
  /\ ptRow \in [there : BOOLEAN, approver : BOOLEAN, old : BOOLEAN,
                format : TokenFields, name : TokenFields, key : TokenFields]
  /\ ptRequest \in {"none", "register", "approve", "dismiss", "tokens", "other"}

-----------------------------------------------------------------------------
(* Storage                                                                 *)

\* prepare(): all the columns, or a failure past the first "known" of them,
\* which a later call may not meet if it is a lock
PrepareTokens ==
  \/ ptColumns' = AllColumns /\ ptKnown' = AllColumns /\ ptLocked' = FALSE
  \/ \E known \in 0..AllColumns - 1 :
       /\ ptKnown' = known
       /\ ptColumns' = IF ptColumns < known THEN known ELSE ptColumns
       /\ ptLocked' \in BOOLEAN

\* save(), the rows it may leave: each statement may be the one that fails.
\* It finds the approver only in a column it knows; an approver keeps its name
\* and format, and its key once it has one.  An app may send no name nor key.
\* SaveAny and PurgeAny are faults, used by no action.
Filled(known, v, field) == IF ptKnown' >= known /\ v # 0 THEN v ELSE field
Overwrite(row, v) ==
  LET first == [row EXCEPT !.there = TRUE, !.old = FALSE,
                           !.format = IF ptKnown' >= 1 THEN v ELSE @]
      named == [first EXCEPT !.name = Filled(2, v, @)]
  IN {row, first, named, [named EXCEPT !.key = Filled(3, v, @)]}
Refresh(row, v) ==
  LET first == [row EXCEPT !.old = FALSE]
  IN {row, first, [first EXCEPT !.key = IF @ = 0 THEN Filled(3, v, @) ELSE @]}
SaveAny(row, v) == Overwrite(row, v)
Save(row, v) ==
  IF ptKnown' >= 2 /\ row.approver THEN Refresh(row, v) ELSE Overwrite(row, v)

\* purge(), of what was not registered again for 30 days
PurgeAny(row) == IF row.old THEN NoRow ELSE row
Purge(row) ==
  IF row.old /\ ~(ptKnown' >= 2 /\ row.approver) THEN NoRow ELSE row

\* setApprover(), with the key the phone has proved
SetApprover(row, v) ==
  IF row.there
  THEN [row EXCEPT !.approver = TRUE, !.key = Filled(3, v, @)]
  ELSE row

-----------------------------------------------------------------------------
(* Requests.  Any of them may fail on a lock or on the disk.               *)

\* Before each request the worker prepares again what a lock kept it from
PrepareAgain ==
  \/ ptKnown < AllColumns /\ ptLocked /\ PrepareTokens
  \/ ~(ptKnown < AllColumns /\ ptLocked) /\ UNCHANGED <<ptColumns, ptKnown, ptLocked>>

RegisterToken(v) ==
  /\ PrepareAgain
  /\ ptRequest' = "register"
  /\ ptRow' \in Save(ptRow, v)

ApproveToken(v) ==
  /\ PrepareAgain
  /\ ptRequest' = "approve"
  /\ ptRow' \in {ptRow, IF ptKnown' >= 2 THEN SetApprover(ptRow, v) ELSE ptRow}

DismissToken ==
  /\ PrepareAgain
  /\ ptRequest' = "dismiss"
  /\ ptRow' \in {ptRow, IF ptKnown' >= 2 THEN [ptRow EXCEPT !.approver = FALSE] ELSE ptRow}

GetTokens ==
  /\ PrepareAgain
  /\ ptRequest' = "tokens"
  /\ ptRow' \in {ptRow, Purge(ptRow)}

\* Requests about events and other tokens, whose registration purges this one
OtherRequest ==
  /\ PrepareAgain
  /\ ptRequest' = "other"
  /\ ptRow' \in {ptRow, Purge(ptRow)}

\* 30 days without a registration
TokenAges ==
  /\ ptRow.there
  /\ ptRow' = [ptRow EXCEPT !.old = TRUE]
  /\ ptRequest' = "none"
  /\ UNCHANGED <<ptColumns, ptKnown, ptLocked>>

\* The server starts, for the first time or again, and prepares the table
TokenInit ==
  /\ ptColumns \in 0..AllColumns
  /\ ptKnown = 0 /\ ptLocked = FALSE
  /\ ptRow = NoRow /\ ptRequest = "none"
WorkerStarts ==
  /\ PrepareTokens
  /\ ptRequest' = "none"
  /\ UNCHANGED ptRow

TokenNext ==
  \/ \E v \in TokenFields : RegisterToken(v) \/ ApproveToken(v)
  \/ DismissToken \/ GetTokens \/ OtherRequest \/ TokenAges \/ WorkerStarts

TokenSpec == TokenInit /\ [][TokenNext]_ptVars

-----------------------------------------------------------------------------
(* Properties                                                              *)

\* "Whoever knows an approver's token may register it: the name and the format
\* the admin enrolled stay.  So does its key once it has one" and "An approver's
\* row ... dropped, the next register_push would recreate it": as long as the
\* worker knows the columns, only the administrator changes an approver.
ApproverIsFrozen ==
  [][ptRow.approver /\ ptKnown' >= 2 /\ ptRequest' \notin {"approve", "dismiss"}
      => /\ ptRow'.approver
         /\ ptRow'.name = ptRow.name /\ ptRow'.format = ptRow.format
         /\ ptRow.key # 0 => ptRow'.key = ptRow.key]_ptVars
=============================================================================
