------------------------------ MODULE EvmCalls ------------------------------
(***************************************************************************)
(* What CompetitionManager.sol uses of the chain: native balances, payable *)
(* calls, transfers that run the payee's code, and block time.             *)
(*                                                                         *)
(* A transfer `to.call{value: v}("")` moves the value and then runs the    *)
(* payee, which may call the contract again before the transfer returns.   *)
(* The calls that still have a transfer to finish are the elements of      *)
(* `frames`, the innermost one first; each is the sequence of transfers    *)
(* the call has yet to complete, headed by the one whose payee is running. *)
(*                                                                         *)
(* A call that reverts leaves the whole chain as it was before the call,   *)
(* so a revert is a stuttering step and needs no action: whatever a        *)
(* reverting call did first is also what a succeeding call did first.      *)
(***************************************************************************)
EXTENDS Integers, Sequences

CONSTANTS
  Addresses,      \* every account of the chain
  ZeroAddress,    \* address(0): it can be paid and can never call
  InitialWallet,  \* the wei each account starts with
  MaxDepth,       \* bound: how many unfinished calls may be nested
  MaxTime         \* bound: the last block timestamp

ASSUME EvmAssumption ==
  /\ ZeroAddress \in Addresses
  /\ InitialWallet \in [Addresses -> Nat]
  /\ MaxDepth \in Nat \ {0}
  /\ MaxTime \in Nat

VARIABLES
  wallet,   \* account -> wei it holds outside the contract
  balance,  \* address(this).balance
  frames,   \* the unfinished calls of the contract, innermost first
  now       \* block.timestamp

evmVars == <<wallet, balance, frames, now>>

Callers == Addresses \ {ZeroAddress}

Transfer == [to : Addresses, amount : Nat \ {0}]

Frame == Seq(Transfer) \ {<<>>}

EvmTypeOK ==
  /\ wallet \in [Addresses -> Nat]
  /\ balance \in Nat
  /\ frames \in Seq(Frame)
  /\ now \in Nat

EvmInit ==
  /\ wallet = InitialWallet
  /\ balance = 0
  /\ frames = <<>>
  /\ now = 0

-----------------------------------------------------------------------------
(* A call that brings `value` into the contract and sends nothing. *)
TakeIn(payer, value) ==
  /\ value <= wallet[payer]
  /\ wallet' = [wallet EXCEPT ![payer] = @ - value]
  /\ balance' = balance + value
  /\ UNCHANGED <<frames, now>>

(* The transfer t itself; it fails when the contract cannot cover it. *)
Send(t) ==
  /\ t.amount <= balance
  /\ wallet' = [wallet EXCEPT ![t.to] = @ + t.amount]
  /\ balance' = balance - t.amount

(* A call whose last statement makes the transfers `due`, in order. *)
Transact(due) ==
  /\ Len(frames) < MaxDepth
  /\ Send(Head(due))
  /\ frames' = <<due>> \o frames
  /\ UNCHANGED now

(* A call that ends with a transfer it makes only if there is something to pay. *)
PayOne(payee, value) ==
  IF value = 0
  THEN UNCHANGED evmVars
  ELSE Transact(<<[to |-> payee, amount |-> value]>>)

(* A call that ends with a loop of transfers, which skips the zero amounts. *)
NonZero(shares) ==
  LET kept[i \in 0..Len(shares)] ==
        IF i = 0 THEN <<>>
        ELSE IF shares[i].amount = 0 THEN kept[i - 1]
        ELSE Append(kept[i - 1], shares[i])
  IN  kept[Len(shares)]

PayEach(shares) ==
  IF NonZero(shares) = <<>>
  THEN UNCHANGED evmVars
  ELSE Transact(NonZero(shares))

(* A call that takes in `value` and sends the payee `price` of the balance. *)
PassOn(payer, value, payee, price) ==
  /\ Len(frames) < MaxDepth
  /\ value <= wallet[payer]
  /\ price <= balance + value
  /\ wallet' = [wallet EXCEPT ![payer] = @ - value, ![payee] = @ + price]
  /\ balance' = (balance + value) - price
  /\ frames' = <<<<[to |-> payee, amount |-> price]>>>> \o frames
  /\ UNCHANGED now

(* The running payee returns and the innermost call has nothing left to send. *)
FinishCall ==
  /\ frames # <<>>
  /\ Tail(Head(frames)) = <<>>
  /\ frames' = Tail(frames)
  /\ UNCHANGED <<wallet, balance, now>>

(* The running payee returns and the innermost call sends its next transfer. *)
NextTransfer ==
  /\ frames # <<>>
  /\ LET due == Tail(Head(frames))
     IN  /\ due # <<>>
         /\ Send(Head(due))
         /\ frames' = <<due>> \o Tail(frames)
         /\ UNCHANGED now

(* A block is mined; the timestamp is the same throughout a call. *)
MineBlock ==
  /\ frames = <<>>
  /\ now < MaxTime
  /\ now' = now + 1
  /\ UNCHANGED <<wallet, balance, frames>>

EvmNext == FinishCall \/ NextTransfer \/ MineBlock

=============================================================================
