------------------------------ MODULE Ledger ------------------------------
(***************************************************************************)
(* The Postgres tables through which money moves: Wallet, Transaction and  *)
(* Spray.  Every component that writes a balance (Sprays, Transfers,       *)
(* Payouts, Webhooks) extends this module, so that they can be composed    *)
(* over the same tables.                                                   *)
(*                                                                         *)
(* A Decimal is an integer number of units.  A wallet row keeps the two    *)
(* balances and the identity of the database transaction that holds its    *)
(* row lock.  A row of Transaction or Spray is a record; a table is a set. *)
(***************************************************************************)
EXTENDS Integers, FiniteSets, FiniteSetsExt

CONSTANTS
  Wallets,    \* rows of the Wallet table
  Actor,      \* the calls that write rows; a call may hold a row lock
  NoOne,      \* the holder of a free row lock
  Keys,       \* references chosen by clients (the Idempotency-Key header)
  Opening     \* the balance of every wallet when the observation starts

ASSUME OpeningAssumption == Opening \in Nat
ASSUME NoOneAssumption == NoOne \notin Actor

VARIABLES
  balance,      \* balance[w] : the two balances of wallet w, as committed
  rowLock,      \* rowLock[w] : who holds the row lock of wallet w
  transaction,  \* the rows of Transaction
  spray         \* the rows of Spray

tables == <<balance, rowLock, transaction, spray>>

(***************************************************************************)
(* Rows.                                                                   *)
(***************************************************************************)
Balance == [available : Int, ledger : Int]

Both(n) == [available |-> n, ledger |-> n]

Plus(b, n) == [available |-> b.available + n, ledger |-> b.ledger + n]

Minus(b, n) == Plus(b, -n)

\* Transaction.reference is either given by a client or drawn by the server
\* (`SPRAY-CREDIT-${randomUUID()}`): two drawn references never collide.
ClientRef(k) == <<"client", k>>
DrawnRef(kind, a) == <<kind, a>>

References == {ClientRef(k) : k \in Keys}
                \cup {DrawnRef(kind, a) : kind \in {"debit", "credit", "inflow", "payout"}, a \in Actor}

TransactionRow == [reference : References,
                   wallet    : Wallets,
                   type      : {"INFLOW", "SPRAY", "PAYOUT"},
                   direction : {"CREDIT", "DEBIT"},
                   status    : {"PENDING", "PROCESSING", "SUCCESS", "FAILED", "REVERSED"},
                   amount    : Int,
                   group     : Actor]

\* `id' is the call that created the row and `debit' the reference of the
\* transaction its transactionId points at.
SprayRow == [id : Actor, from : Wallets, to : Wallets, amount : Int,
             debit : References, group : Actor]

TablesTypeOK ==
  /\ balance \in [Wallets -> Balance]
  /\ rowLock \in [Wallets -> Actor \cup {NoOne}]
  /\ transaction \subseteq TransactionRow
  /\ spray \subseteq SprayRow

TablesInit ==
  /\ balance = [w \in Wallets |-> Both(Opening)]
  /\ rowLock = [w \in Wallets |-> NoOne]
  /\ transaction = {}
  /\ spray = {}

(***************************************************************************)
(* Queries.                                                                *)
(***************************************************************************)

\* The unique index on Transaction.reference.
ReferenceTaken(ref) == \E t \in transaction : t.reference = ref

\* The spray reached through transaction.findUnique({reference}).spray.
SpraysUnder(ref) == {s \in spray : ReferenceTaken(ref) /\ s.debit = ref}

Free(w, a) == rowLock[w] \in {NoOne, a}

Lock(w, a) == rowLock' = [rowLock EXCEPT ![w] = a]

Release(a) == rowLock' = [w \in Wallets |-> IF rowLock[w] = a THEN NoOne ELSE rowLock[w]]

(***************************************************************************)
(* What the rows of Transaction say a wallet should hold.                  *)
(***************************************************************************)
SumOfAmounts(rows) == MapThenSumSet(LAMBDA r : r.amount, rows)

RowsOf(w, dir) ==
  {t \in transaction : t.wallet = w /\ t.direction = dir /\ t.status = "SUCCESS"}

Booked(w) ==
  Opening + SumOfAmounts(RowsOf(w, "CREDIT")) - SumOfAmounts(RowsOf(w, "DEBIT"))
=============================================================================
