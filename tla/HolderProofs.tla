---------------------------- MODULE HolderProofs ----------------------------
(***************************************************************************)
(* The operations of contracts/two-party-pol-holder, for any splits, funds *)
(* and penalty: what they keep, whom they pay and what phase they leave    *)
(* the holder in.  The proofs about the covenants with either pooler rest  *)
(* on these lemmas.                                                        *)
(***************************************************************************)
EXTENDS TwoPartyPolHolder, CoinProofs

\* Parts of HolderConstants.
USE DEF ValidCovenantConfig, ValidRagequitConfig

\* The parties' two names.
LEMMA OtherFacts ==
    ASSUME NEW p \in Parties
    PROVE  Other(p) \in Parties /\ Other(p) # p /\ Other(Other(p)) = p /\ Parties = {p, Other(p)}
BY HolderConstants DEF Other, Parties

\* All the coins a holder accounts for: its own and the ones it has paid out.
Worth(h) == Total(h.bal) + Total(h.paid[A]) + Total(h.paid[B])

(***************************************************************************)
(* Bank sends that do not exceed the balance keep the holder well formed,  *)
(* lose nothing and change nothing but the balance and what is paid.       *)
(***************************************************************************)
LEMMA SendFacts ==
    ASSUME NEW h \in Holders, NEW due \in [Parties -> Amounts],
           \A d \in Denoms : due[A][d] + due[B][d] <= h.bal[d]
    PROVE  /\ Send(h, due) \in Holders
           /\ Worth(Send(h, due)) = Worth(h)
           /\ Send(h, due).contract_state = h.contract_state
           /\ Send(h, due).withdraw_state = h.withdraw_state
           /\ Send(h, due).alloc = h.alloc
           /\ Send(h, due).quitter = h.quitter
           /\ Send(h, due).queued = h.queued
<1> DEFINE b1 == Minus(h.bal, due[A])
           b2 == Minus(b1, due[B])
           pd == [p \in Parties |-> Plus(h.paid[p], due[p])]
<1>1. h.bal \in Amounts /\ h.paid \in [Parties -> Amounts]
    BY DEF Holders
<1>2. A \in Parties /\ B \in Parties
    BY DEF Parties
<1>3. due[A] \in Amounts /\ due[B] \in Amounts
    BY <1>2
<1>4. b1 \in Amounts /\ Total(b1) = Total(h.bal) - Total(due[A])
    <2>1. \A d \in Denoms : due[A][d] <= h.bal[d]
        BY <1>1, <1>3 DEF Amounts
    <2> QED BY <2>1, <1>1, <1>3, AmountFacts
<1>5. b2 \in Amounts /\ Total(b2) = Total(b1) - Total(due[B])
    <2>1. \A d \in Denoms : due[B][d] <= b1[d]
        BY <1>1, <1>3 DEF Amounts, Minus
    <2> HIDE DEF b1
    <2> QED BY <2>1, <1>4, <1>3, AmountFacts
<1>6. /\ pd \in [Parties -> Amounts]
      /\ Total(pd[A]) = Total(h.paid[A]) + Total(due[A])
      /\ Total(pd[B]) = Total(h.paid[B]) + Total(due[B])
    BY <1>1, <1>2, <1>3, AmountFacts
<1>7. Send(h, due) = [h EXCEPT !.bal = b2, !.paid = pd]
    BY DEF Send
<1> HIDE DEF b1, b2, pd
<1>8. Send(h, due).bal = b2 /\ Send(h, due).paid = pd
    BY <1>7 DEF Holders
<1>9. \A x \in Amounts : Total(x) \in Int
    BY DEF Amounts, Total, Denoms, Parties
<1>10. Worth(Send(h, due)) = Worth(h)
    BY <1>1, <1>2, <1>3, <1>4, <1>5, <1>6, <1>8, <1>9 DEF Worth
<1> QED BY <1>5, <1>6, <1>7, <1>10 DEF Holders

\* Splits by denom, as the holder stores them.
AreSplits(splits) ==
    /\ DOMAIN splits \subseteq Denoms
    /\ \A d \in DOMAIN splits : IsSplit(splits[d])

\* Valid splits divide no more of a denom than there is.
LEMMA SharedFacts ==
    ASSUME NEW funds \in Amounts, NEW splits, AreSplits(splits)
    PROVE  /\ Shared(funds, splits) \in [Parties -> Amounts]
           /\ \A d \in Denoms : Shared(funds, splits)[A][d] + Shared(funds, splits)[B][d]
                                   <= funds[d]
<1>1. Unit \in Nat \ {0} /\ A \in Parties /\ B \in Parties
    BY HolderConstants DEF Parties
<1>2. ASSUME NEW d \in DOMAIN splits
      PROVE  /\ d \in Denoms
             /\ splits[d] \in [Parties -> 0 .. Unit]
             /\ splits[d][A] + splits[d][B] = Unit
    BY <1>2 DEF AreSplits, IsSplit
<1>3. ASSUME NEW p \in Parties, NEW d \in DOMAIN splits
      PROVE  Entitlement(funds[d], splits[d][p]) \in Nat
    <2>1. funds[d] \in Nat /\ splits[d][p] \in 0 .. Unit
        BY <1>2, <1>3 DEF Amounts
    <2> QED BY <2>1, <1>1, PartBound DEF Entitlement
<1>4. ASSUME NEW d \in DOMAIN splits
      PROVE  Entitlement(funds[d], splits[d][A]) + Entitlement(funds[d], splits[d][B])
               <= funds[d]
    <2>1. /\ funds[d] \in Nat
          /\ splits[d][A] \in 0 .. Unit /\ splits[d][B] \in 0 .. Unit
          /\ splits[d][A] + splits[d][B] = Unit
        BY <1>1, <1>2, <1>4 DEF Amounts
    <2> QED BY <2>1, <1>1, PartsBound DEF Entitlement
<1>5. Shared(funds, splits) \in [Parties -> Amounts]
    BY <1>3 DEF Shared, Amounts
<1>6. ASSUME NEW d \in Denoms
      PROVE  Shared(funds, splits)[A][d] + Shared(funds, splits)[B][d] <= funds[d]
    <2>1. CASE d \in DOMAIN splits
        BY <2>1, <1>1, <1>4 DEF Shared
    <2>2. CASE d \notin DOMAIN splits
        BY <2>2, <1>1 DEF Shared, Amounts
    <2> QED BY <2>1, <2>2
<1> QED BY <1>5, <1>6

\* Paying everything to one party is a division too.
LEMMA SingleReceiverFacts ==
    ASSUME NEW funds \in Amounts, NEW p \in Parties
    PROVE  /\ SingleReceiver(funds, p) \in [Parties -> Amounts]
           /\ \A d \in Denoms :
                 SingleReceiver(funds, p)[A][d] + SingleReceiver(funds, p)[B][d] <= funds[d]
BY HolderConstants DEF SingleReceiver, Amounts, Parties

\* A penalty that the split can bear leaves a split.
LEMMA SplitsForFacts ==
    ASSUME NEW w \in WithdrawStates,
           w.kind = "ProcessingRagequit" => PenaltyOk(w.claimer)
    PROVE  AreSplits(SplitsFor(w))
<1>1. AreSplits(ExplicitSplits)
    BY HolderConstants DEF AreSplits
<1>2. CASE w.kind # "ProcessingRagequit"
    BY <1>1, <1>2 DEF SplitsFor
<1>3. CASE w.kind = "ProcessingRagequit"
    <2>1. PICK p \in Parties : w = ProcessingRagequit(p)
        BY <1>3 DEF WithdrawStates, NoWithdraw, Emergency, Processing, ProcessingRagequit
    <2>2. w.claimer = p
        BY <2>1 DEF ProcessingRagequit
    <2>3. SplitsFor(w) = Penalised(p) /\ PenaltyOk(p)
        BY <1>3, <2>2 DEF SplitsFor
    <2>4. DOMAIN Penalised(p) = DOMAIN ExplicitSplits
        BY DEF Penalised
    <2>5. ASSUME NEW d \in DOMAIN ExplicitSplits PROVE IsSplit(Penalised(p)[d])
        <3> DEFINE x == ExplicitSplits[d]
        <3>1. x \in [Parties -> 0 .. Unit] /\ x[A] + x[B] = Unit
            BY <1>1 DEF AreSplits, IsSplit
        <3>2. CASE x[p] > 0
            <4>1. Penalised(p)[d] =
                    [q \in Parties |-> IF q = p THEN x[q] - Penalty ELSE x[q] + Penalty]
                BY <3>2 DEF Penalised
            <4>2. x[p] >= Penalty /\ Penalty \in Nat /\ Unit \in Nat
                BY <2>3, <3>2, HolderConstants DEF PenaltyOk
            <4> HIDE DEF x
            <4> QED BY <4>1, <4>2, <3>1, HolderConstants DEF IsSplit, Parties
        <3>3. CASE ~(x[p] > 0)
            BY <3>1, <3>3 DEF Penalised, IsSplit
        <3> QED BY <3>2, <3>3
    <2> QED BY <1>1, <2>3, <2>4, <2>5 DEF AreSplits
<1> QED BY <1>2, <1>3
-----------------------------------------------------------------------------
\* try_claim_side_based, on a holder whose balance covers the funds.
LEMMA ClaimSideFacts ==
    ASSUME NEW h \in Holders, NEW funds \in Amounts, NEW splits, AreSplits(splits),
           \A d \in Denoms : funds[d] <= h.bal[d]
    PROVE  LET c == ClaimSide(h, funds, splits)
           IN  /\ c \in Holders
               /\ Worth(c) = Worth(h)
               /\ c.contract_state = "Complete"
               /\ ~c.queued
               /\ \A p \in Parties : c.alloc[p] = 0
               /\ c.withdraw_state = h.withdraw_state
               /\ c.quitter = h.quitter
<1> DEFINE due == Shared(funds, splits)
           sent == Send(h, due)
           none == [p \in Parties |-> 0]
           c == ClaimSide(h, funds, splits)
<1>1. due \in [Parties -> Amounts]
    BY SharedFacts
<1>2. \A d \in Denoms : due[A][d] + due[B][d] <= h.bal[d]
    <2>1. \A d \in Denoms : due[A][d] + due[B][d] <= funds[d]
        BY SharedFacts
    <2>2. \A d \in Denoms : funds[d] \in Int /\ h.bal[d] \in Int
        BY DEF Holders, Amounts
    <2>3. \A d \in Denoms : due[A][d] \in Int /\ due[B][d] \in Int
        BY <1>1 DEF Amounts, Parties
    <2> HIDE DEF due
    <2> QED BY <2>1, <2>2, <2>3
<1> HIDE DEF due
<1>3. /\ sent \in Holders /\ Worth(sent) = Worth(h)
      /\ sent.withdraw_state = h.withdraw_state /\ sent.quitter = h.quitter
    BY <1>1, <1>2, SendFacts
<1>4. c = [sent EXCEPT !.alloc = none, !.contract_state = "Complete", !.queued = FALSE]
    BY DEF ClaimSide, Completed, Holders, due
<1> HIDE DEF sent, c
<1>5. none \in [Parties -> 0 .. Unit]
    BY HolderConstants
<1>6. c \in Holders
    BY <1>3, <1>4, <1>5 DEF Holders, ContractStates
<1>7. c.bal = sent.bal /\ c.paid = sent.paid /\ c.alloc = none /\ ~c.queued
      /\ c.contract_state = "Complete"
      /\ c.withdraw_state = sent.withdraw_state /\ c.quitter = sent.quitter
    BY <1>3, <1>4 DEF Holders
<1>8. Worth(c) = Worth(sent)
    BY <1>7 DEF Worth
<1> QED BY <1>3, <1>6, <1>7, <1>8 DEF c

\* try_claim_share_based, likewise.
LEMMA ClaimShareFacts ==
    ASSUME NEW h \in Holders, NEW funds \in Amounts, NEW p \in Parties,
           \A d \in Denoms : funds[d] <= h.bal[d]
    PROVE  LET c == ClaimShare(h, p, funds)
           IN  /\ c \in Holders
               /\ Worth(c) = Worth(h)
               /\ c.withdraw_state = h.withdraw_state
               /\ c.quitter = h.quitter
               /\ c.alloc[p] = 0
               /\ IF h.alloc[Other(p)] # 0
                  THEN /\ c.alloc[Other(p)] = Unit
                       /\ c.contract_state = h.contract_state
                       /\ c.queued = h.queued
                  ELSE /\ c.alloc[Other(p)] = 0
                       /\ c.contract_state = "Complete"
                       /\ ~c.queued
<1> DEFINE due == SingleReceiver(funds, p)
           sent == Send(h, due)
           c == ClaimShare(h, p, funds)
<1>1. due \in [Parties -> Amounts]
    BY SingleReceiverFacts
<1>2. \A d \in Denoms : due[A][d] + due[B][d] <= h.bal[d]
    <2>1. \A d \in Denoms : due[A][d] + due[B][d] <= funds[d]
        BY SingleReceiverFacts
    <2>2. \A d \in Denoms : funds[d] \in Int /\ h.bal[d] \in Int
        BY DEF Holders, Amounts
    <2>3. \A d \in Denoms : due[A][d] \in Int /\ due[B][d] \in Int
        BY <1>1 DEF Amounts, Parties
    <2> HIDE DEF due
    <2> QED BY <2>1, <2>2, <2>3
<1> HIDE DEF due
<1>3. /\ sent \in Holders /\ Worth(sent) = Worth(h)
      /\ sent.withdraw_state = h.withdraw_state /\ sent.quitter = h.quitter
      /\ sent.contract_state = h.contract_state /\ sent.queued = h.queued
      /\ sent.alloc = h.alloc
    BY <1>1, <1>2, SendFacts
<1>4. c = IF h.alloc[Other(p)] # 0
          THEN [[sent EXCEPT !.alloc[p] = 0] EXCEPT !.alloc[Other(p)] = Unit]
          ELSE [[sent EXCEPT !.alloc[p] = 0] EXCEPT
                   !.contract_state = "Complete", !.queued = FALSE]
    BY DEF ClaimShare, Completed, due
<1> HIDE DEF sent, c
<1>5. Other(p) \in Parties /\ Other(p) # p
    BY HolderConstants DEF Other, Parties
<1>6. 0 \in 0 .. Unit /\ Unit \in 0 .. Unit
    BY HolderConstants
<1>7. CASE h.alloc[Other(p)] # 0
    <2>1. c = [sent EXCEPT !.alloc = [[sent.alloc EXCEPT ![p] = 0] EXCEPT ![Other(p)] = Unit]]
        BY <1>3, <1>4, <1>7 DEF Holders
    <2>2. sent.alloc \in [Parties -> 0 .. Unit]
        BY <1>3 DEF Holders
    <2>3. c \in Holders
        BY <2>1, <2>2, <1>3, <1>6 DEF Holders
    <2>4. c.bal = sent.bal /\ c.paid = sent.paid /\ c.queued = sent.queued
          /\ c.contract_state = sent.contract_state
          /\ c.withdraw_state = sent.withdraw_state /\ c.quitter = sent.quitter
        BY <2>1, <1>3 DEF Holders
    <2>5. c.alloc[p] = 0 /\ c.alloc[Other(p)] = Unit
        BY <2>1, <2>2, <1>3, <1>5 DEF Holders
    <2>6. Worth(c) = Worth(sent)
        BY <2>4 DEF Worth
    <2> QED BY <1>3, <1>7, <2>3, <2>4, <2>5, <2>6 DEF c
<1>8. CASE h.alloc[Other(p)] = 0
    <2>1. c = [sent EXCEPT !.alloc = [sent.alloc EXCEPT ![p] = 0],
                           !.contract_state = "Complete", !.queued = FALSE]
        BY <1>3, <1>4, <1>8 DEF Holders
    <2>2. sent.alloc \in [Parties -> 0 .. Unit]
        BY <1>3 DEF Holders
    <2>3. c \in Holders
        BY <2>1, <2>2, <1>3, <1>6 DEF Holders, ContractStates
    <2>4. c.bal = sent.bal /\ c.paid = sent.paid /\ ~c.queued
          /\ c.contract_state = "Complete"
          /\ c.withdraw_state = sent.withdraw_state /\ c.quitter = sent.quitter
        BY <2>1, <1>3 DEF Holders
    <2>5. c.alloc[p] = 0 /\ c.alloc[Other(p)] = 0
        BY <2>1, <2>2, <1>3, <1>5, <1>8 DEF Holders
    <2>6. Worth(c) = Worth(sent)
        BY <2>4 DEF Worth
    <2> QED BY <1>3, <1>8, <2>3, <2>4, <2>5, <2>6 DEF c
<1> QED BY <1>7, <1>8

(***************************************************************************)
(* What try_distribute does to the holder, by kind of withdrawal.          *)
(***************************************************************************)
LEMMA DistributeFacts ==
    ASSUME NEW h \in Holders, NEW funds \in Amounts, DistributeOk(h, funds)
    PROVE  LET c == Distribute(h, funds)
               p == h.withdraw_state.claimer
               rq == h.withdraw_state.kind = "ProcessingRagequit"
           IN  /\ c \in Holders
               /\ Worth(c) = Worth(h) + Total(funds)
               /\ c.quitter = IF rq THEN p ELSE h.quitter
               /\ IF h.withdraw_state = Emergency
                  THEN c.withdraw_state = Emergency
                  ELSE p \in Parties /\ c.withdraw_state = NoWithdraw
               /\ IF BySplits(h)
                  THEN /\ c.contract_state = "Complete" /\ ~c.queued
                       /\ \A q \in Parties : c.alloc[q] = 0
                  ELSE /\ c.alloc[p] = 0
                       /\ IF h.alloc[Other(p)] # 0
                          THEN /\ c.alloc[Other(p)] = Unit
                               /\ c.contract_state = IF rq THEN "Ragequit"
                                                         ELSE h.contract_state
                               /\ c.queued = h.queued
                          ELSE /\ c.alloc[Other(p)] = 0
                               /\ c.contract_state = "Complete" /\ ~c.queued
<1> DEFINE w == h.withdraw_state
           p == w.claimer
           rq == w.kind = "ProcessingRagequit"
           received == [h EXCEPT !.bal = Plus(@, funds)]
           released == [received EXCEPT
                          !.withdraw_state = NoWithdraw,
                          !.quitter = IF rq THEN p ELSE @,
                          !.contract_state =
                              IF rq /\ CovenantType = "Share" THEN "Ragequit" ELSE @]
           splits == SplitsFor(w)
           c == Distribute(h, funds)
<1>1. w \in WithdrawStates
    BY DEF Holders
<1>2. AreSplits(splits)
    BY <1>1, SplitsForFacts DEF DistributeOk
<1>3. Plus(h.bal, funds) \in Amounts /\ Total(Plus(h.bal, funds)) = Total(h.bal) + Total(funds)
    BY AmountFacts DEF Holders
<1>4. received \in Holders
    BY <1>3 DEF Holders
<1>5. /\ received.bal = Plus(h.bal, funds) /\ received.paid = h.paid
      /\ received.contract_state = h.contract_state /\ received.alloc = h.alloc
      /\ received.queued = h.queued /\ received.quitter = h.quitter
      /\ received.withdraw_state = w
    BY DEF Holders
<1>6. \A d \in Denoms : funds[d] <= received.bal[d]
    BY <1>5 DEF Plus, Amounts, Holders
<1>7. Worth(received) = Worth(h) + Total(funds)
    <2>1. \A x \in Amounts : Total(x) \in Int
        BY DEF Amounts, Total, Denoms, Parties
    <2>2. h.bal \in Amounts /\ h.paid[A] \in Amounts /\ h.paid[B] \in Amounts
        BY DEF Holders, Parties
    <2> HIDE DEF received
    <2> QED BY <1>3, <1>5, <2>1, <2>2 DEF Worth
<1>8. w # Emergency => p \in Parties /\ w # NoWithdraw
    BY <1>1 DEF DistributeOk, WithdrawStates, Processing, ProcessingRagequit
<1>9. w = Emergency => ~rq
    BY DEF Emergency
<1>10. /\ NoWithdraw \in WithdrawStates
       /\ "Ragequit" \in ContractStates
       /\ rq => p \in Parties \cup {NoParty}
    BY <1>8, <1>9 DEF WithdrawStates, ContractStates
<1>11. released \in Holders
    <2> HIDE DEF received, p, rq
    <2>1. (IF rq THEN p ELSE received.quitter) \in Parties \cup {NoParty}
        BY <1>4, <1>10 DEF Holders
    <2>2. (IF rq /\ CovenantType = "Share" THEN "Ragequit" ELSE received.contract_state)
             \in ContractStates
        BY <1>4, <1>10 DEF Holders
    <2> QED BY <1>4, <1>10, <2>1, <2>2 DEF Holders
<1>12. /\ released.bal = received.bal /\ released.paid = received.paid
       /\ released.alloc = h.alloc /\ released.queued = h.queued
       /\ released.withdraw_state = NoWithdraw
       /\ released.quitter = (IF rq THEN p ELSE h.quitter)
       /\ released.contract_state =
             IF rq /\ CovenantType = "Share" THEN "Ragequit" ELSE h.contract_state
    <2> HIDE DEF received, p, rq
    <2> QED BY <1>4, <1>5 DEF Holders
<1>13. c = IF w = Emergency THEN ClaimSide(received, funds, splits)
           ELSE IF CovenantType = "Share"  THEN ClaimShare(released, p, funds)
           ELSE ClaimSide(released, funds, splits)
    BY DEF Distribute
<1>14. Worth(released) = Worth(received)
    BY <1>12 DEF Worth
<1>15. BySplits(h) <=> w = Emergency \/ CovenantType = "Side"
    BY DEF BySplits
<1>16. CovenantType = "Share" \/ CovenantType = "Side"
    BY HolderConstants
<1> HIDE DEF received, released, splits, c, p, rq, w
<1>17. CASE w = Emergency
    BY <1>17, <1>13, <1>2, <1>4, <1>5, <1>6, <1>7, <1>9, <1>15, ClaimSideFacts
       DEF c, p, rq, w
<1>18. CASE w # Emergency /\ CovenantType = "Side"
    <2>1. c = ClaimSide(released, funds, splits)
        BY <1>13, <1>18
    <2>2. \A d \in Denoms : funds[d] <= released.bal[d]
        BY <1>6, <1>12
    <2> QED BY <2>1, <2>2, <1>18, <1>2, <1>7, <1>8, <1>11, <1>12, <1>14, <1>15, ClaimSideFacts
            DEF c, p, rq, w
<1>19. CASE w # Emergency /\ CovenantType = "Share"
    <2>1. c = ClaimShare(released, p, funds)
        BY <1>13, <1>19
    <2>2. \A d \in Denoms : funds[d] <= released.bal[d]
        BY <1>6, <1>12
    <2> QED BY <2>1, <2>2, <1>19, <1>7, <1>8, <1>11, <1>12, <1>14, <1>15, ClaimShareFacts
            DEF c, p, rq, w
<1> QED BY <1>16, <1>17, <1>18, <1>19

\* Taking the lock changes nothing else.
LEMMA StartFacts ==
    ASSUME NEW h \in Holders, NEW w \in WithdrawStates
    PROVE  LET s == [h EXCEPT !.withdraw_state = w]
           IN  /\ s \in Holders /\ Worth(s) = Worth(h) /\ s.withdraw_state = w
               /\ s.contract_state = h.contract_state /\ s.alloc = h.alloc
               /\ s.quitter = h.quitter /\ s.queued = h.queued
BY DEF Holders, Worth
-----------------------------------------------------------------------------
\* What a withdrawal pays, and to whom.
Due(h, funds) ==
    IF BySplits(h) THEN Shared(funds, SplitsFor(h.withdraw_state))
                   ELSE SingleReceiver(funds, h.withdraw_state.claimer)

\* What Distribute owes to the parties is covered by what it received.
LEMMA DueFacts ==
    ASSUME NEW h \in Holders, NEW funds \in Amounts, DistributeOk(h, funds)
    PROVE  /\ Due(h, funds) \in [Parties -> Amounts]
           /\ \A d \in Denoms : Due(h, funds)[A][d] + Due(h, funds)[B][d] <= funds[d]
<1>1. h.withdraw_state \in WithdrawStates
    BY DEF Holders
<1>2. CASE BySplits(h)
    <2>1. AreSplits(SplitsFor(h.withdraw_state))
        BY <1>1, SplitsForFacts DEF DistributeOk
    <2> QED BY <1>2, <2>1, SharedFacts DEF Due
<1>3. CASE ~BySplits(h)
    <2>1. h.withdraw_state.claimer \in Parties
        BY <1>1, <1>3 DEF BySplits, DistributeOk, WithdrawStates, Processing, ProcessingRagequit
    <2> QED BY <1>3, <2>1, SingleReceiverFacts DEF Due
<1> QED BY <1>2, <1>3

\* Distribute pays what is due, and only that.
LEMMA DistributePays ==
    ASSUME NEW h \in Holders, NEW funds \in Amounts
    PROVE  LET c == Distribute(h, funds)
               due == Due(h, funds)
           IN  /\ c.lockup = h.lockup
               /\ c.bal = Minus(Minus(Plus(h.bal, funds), due[A]), due[B])
               /\ c.paid = [q \in Parties |-> Plus(h.paid[q], due[q])]
<1> DEFINE w == h.withdraw_state
           p == w.claimer
           rq == w.kind = "ProcessingRagequit"
           received == [h EXCEPT !.bal = Plus(@, funds)]
           released == [received EXCEPT
                          !.withdraw_state = NoWithdraw,
                          !.quitter = IF rq THEN p ELSE @,
                          !.contract_state =
                              IF rq /\ CovenantType = "Share" THEN "Ragequit" ELSE @]
           splits == SplitsFor(w)
           c == Distribute(h, funds)
           due == Due(h, funds)
           left == Minus(Minus(Plus(h.bal, funds), due[A]), due[B])
           given == [q \in Parties |-> Plus(h.paid[q], due[q])]
<1>1. /\ received.bal = Plus(h.bal, funds) /\ received.paid = h.paid /\ received.lockup = h.lockup
      /\ released.bal = Plus(h.bal, funds) /\ released.paid = h.paid /\ released.lockup = h.lockup
    BY DEF Holders
<1>2. c = IF w = Emergency THEN ClaimSide(received, funds, splits)
          ELSE IF CovenantType = "Share" THEN ClaimShare(released, p, funds)
          ELSE ClaimSide(released, funds, splits)
    BY DEF Distribute
<1>3. /\ "bal" \in DOMAIN received /\ "paid" \in DOMAIN received /\ "lockup" \in DOMAIN received
      /\ "contract_state" \in DOMAIN received /\ "queued" \in DOMAIN received /\ "alloc" \in DOMAIN received
      /\ DOMAIN released = DOMAIN received
    BY DEF Holders
<1> HIDE DEF received, released
<1>4. ASSUME NEW r, r = received \/ r = released, BySplits(h)
      PROVE  LET e == ClaimSide(r, funds, splits)
             IN  e.lockup = h.lockup /\ e.bal = left /\ e.paid = given
    BY <1>1, <1>3, <1>4 DEF ClaimSide, Completed, Send, Due
<1>5. ASSUME ~BySplits(h)
      PROVE  LET e == ClaimShare(released, p, funds)
             IN  e.lockup = h.lockup /\ e.bal = left /\ e.paid = given
    BY <1>1, <1>3, <1>5 DEF ClaimShare, Completed, Send, Due
<1>6. BySplits(h) <=> w = Emergency \/ CovenantType # "Share"
    BY HolderConstants DEF BySplits
<1> HIDE DEF w, p, splits, c, left, given
<1>7. c.lockup = h.lockup /\ c.bal = left /\ c.paid = given
    BY <1>2, <1>4, <1>5, <1>6
<1> QED BY <1>7 DEF c, left, given

\* Bank sends take from the balance.
LEMMA SendTakes ==
    ASSUME NEW h \in Holders, NEW due \in [Parties -> Amounts], NEW d \in Denoms
    PROVE  Send(h, due).bal[d] <= h.bal[d]
<1>1. Send(h, due).bal = Minus(Minus(h.bal, due[A]), due[B])
    BY DEF Send, Holders
<1>2. h.bal[d] \in Nat /\ due[A][d] \in Nat /\ due[B][d] \in Nat
    BY DEF Holders, Amounts, Parties
<1> QED BY <1>1, <1>2 DEF Minus

(***************************************************************************)
(* A split pays every party its share of what is paid in all, but for less *)
(* than one coin either way.                                               *)
(***************************************************************************)
LEMMA SplitPays ==
    ASSUME NEW sp, IsSplit(sp), NEW f \in Nat, NEW p \in Parties
    PROVE  LET x == Entitlement(f, sp[p])
               out == Entitlement(f, sp[A]) + Entitlement(f, sp[B])
           IN  x * Unit <= sp[p] * (out + 1) /\ (x + 1) * Unit > sp[p] * out
<1> DEFINE x == Entitlement(f, sp[p])
           ea == Entitlement(f, sp[A])
           eb == Entitlement(f, sp[B])
           out == ea + eb
           s == sp[p]
<1>1. /\ Unit \in Nat \ {0} /\ s \in Nat /\ sp[A] \in Nat /\ sp[B] \in Nat
      /\ sp[A] + sp[B] = Unit
    BY HolderConstants DEF IsSplit, Parties
<1>2. x \in Nat /\ x * Unit <= f * s /\ f * s < x * Unit + Unit
    BY <1>1, EntitlementFacts
<1>3. ea \in Nat /\ eb \in Nat
    BY <1>1, EntitlementFacts
<1>4. f - ea - eb \in {0, 1}
    BY <1>1, Remainder
<1> HIDE DEF x, ea, eb, s
<1>5. out \in Nat /\ out <= f /\ f <= out + 1
    BY <1>3, <1>4
<1> HIDE DEF out
<1>6. f * s <= s * (out + 1) /\ s * out <= f * s
    BY ONLY <1>1, <1>5, f \in Nat
<1>7. (x + 1) * Unit = x * Unit + Unit /\ x * Unit \in Nat /\ f * s \in Nat
      /\ s * (out + 1) \in Nat /\ s * out \in Nat
    BY <1>1, <1>2, <1>5
<1>8. x * Unit <= s * (out + 1) /\ (x + 1) * Unit > s * out
    BY <1>1, <1>2, <1>6, <1>7
<1> QED BY <1>8 DEF x, out, ea, eb, s
=============================================================================
