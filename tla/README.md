# TLA+ models of the covenant contracts

The repository holds a set of CosmWasm contracts that let one or two parties
enter a *covenant*: they deposit coins, the coins are swapped or put into a
liquidity pool, and they come back out by rules agreed on beforehand. No
contract acts by itself. A *clock* contract, which anyone may call, ticks the
other contracts in turn, and each tick lets the ticked contract do the next step
that its state and balance allow.

This directory holds specifications of the clock, of the two-party POL covenant
(holder, Astroport pooler, Osmosis pooler), of the token swap (forwarder, swap
holder, splitter, routers), of the single-party POL covenant (remote splitter,
forwarders, liquid staker, pooler, holder, router), of the contracts that pay
out, and of the deployment of all three covenants, with the TLC runs that check
them and the TLAPS proofs of their main invariants. The last section is the plan
for the rest.

## Inventory

| component | state | operations | interacts with |
|---|---|---|---|
| `packages/cw-fifo` | two storage maps (id to element, element to id) and a counter | enqueue, dequeue (oldest), remove, has | used by the clock |
| `contracts/clock` | queue, whitelist, paused flag, gas limit of a tick | Tick, Enqueue, Dequeue; admin: Pause, Unpause, UpdateTickMaxGas, ManageWhitelist | ticks every contract by a submessage whose failure it swallows; contracts dequeue themselves |
| `contracts/two-party-pol-holder` | contract state, withdrawal lock, allocations, ragequit terms, two deadlines, splits, balance | Tick (forward deposits, expire, refund), Claim, Ragequit, EmergencyWithdraw, Distribute, WithdrawFailed, DistributeFallbackSplit, migration | asks the pooler to Withdraw, is called back with Distribute or WithdrawFailed, pays the routers, dequeues from the clock |
| `contracts/astroport-liquid-pooler` | balance, LP tokens, provided liquidity | Tick (double-sided or single-sided provision), Withdraw | the Astroport pair (external), its holder |
| `contracts/osmo-liquid-pooler`, `contracts/outpost-osmo-liquid-pooler` | state machine with a withdrawal in progress, last known proxy balances; outpost: the reply it waits for | Tick, Withdraw, polytone callbacks; outpost: provide, withdraw | asynchronous messages to Osmosis over polytone and IBC |
| `contracts/ibc-forwarder`, `contracts/remote-chain-splitter`, `contracts/stride-liquid-staker` | Instantiated or IcaCreated, address of the interchain account, payloads of submitted transactions | Tick (register, forward or split), sudo callbacks (open ack, response, error, timeout), fallback | interchain accounts on other chains |
| `contracts/swap-holder` | Instantiated, Expired, Complete; deadline | Tick (forward, expire, refund) | two forwarders in, one splitter out |
| `contracts/single-party-pol-holder` | withdrawal flag, lockup | Claim, Distribute, WithdrawFailed, EmergencyWithdraw | its pooler |
| `contracts/native-router`, `contracts/interchain-router`, `contracts/native-splitter` | target denoms, splits, fallback split | Tick and fallback: send whole balances on; migration | bank, IBC transfers and their fees |
| `contracts/swap-covenant`, `contracts/two-party-pol-covenant`, `contracts/single-party-pol-covenant` | addresses and code ids of the contracts they instantiate | instantiation, migration of the contracts, the deposit address | everything, once, in one transaction |

What is hard to test in these contracts:

* Every contract can be ticked, claimed from, paused and migrated in any order;
  the queue of the clock is edited by the contracts it drives and by the admin
  between ticks.
* A message and everything it triggers is one transaction: a failure anywhere
  (an empty bank send, a Dequeue of a contract that is not queued, a paused
  clock) undoes all of it. A path that always fails locks funds.
* Amounts are rounded down in several places before they are paid out.
* Two deadlines (deposit and lockup) race with ticks, and an expired deadline
  takes effect only when somebody ticks.
* The Osmosis pooler and the interchain accounts wait for answers that may
  arrive late, after a retry, or not at all.
* A covenant is deployed by messages of one transaction that refer to addresses
  computed in advance; each contract must be ticked exactly once per round,
  whether it enqueues itself or is queued by the covenant.
* Transfers of an interchain router cost fees that it has to keep back from the
  coins it routes.

`PROJECT.json` lists these hazards at their lines.

What makes each component correct: the clock serves everyone in turn, ticks only
contracts it was told to, and a contract that leaves is gone; the queue's two
maps agree. The holder neither creates nor loses coins, pays each party its
agreed part and no more, opens the position only after the lockup, a ragequit or
an emergency, and always ends with everybody paid or refunded. The pooler
returns the requested percentage of what it was given. A token swap is all or
nothing, and what comes too late goes back; a forwarder gets its account back
after every timeout. A single-party covenant returns everything, and nothing of
the position before the lockup is over. Routers and splitter divide by the agreed
shares and are never stuck while they could pay. A deployment goes through if
its parts are valid, and wires the contracts so that coins get home.

## Modules

| module | models | form |
|---|---|---|
| `CwFifo` | `packages/cw-fifo` | pure operators on a record `front`, `back`, `count` |
| `Clock` | `contracts/clock` | one action per message and migration |
| `RoundRobin` | what the clock promises | abstract specification: a line served in turn, its order a set of pairs |
| `CovenantParties` | the parties, amounts of their coins, `split.rs` | pure operators |
| `TwoPartyPolHolder` | the holder | operators from the contract's record before a message to the one after it; `...Ok` operators are the conditions under which the code returns no error |
| `AstroportPool` | the pooler's account and, external, its pool | pure operators |
| `AstroportLiquidPooler` | the pooler | the same |
| `TwoPartyPol` | holder, pooler, clock pauses, parties, committee, block time | one action per transaction |
| `OsmoLiquidPooler` | the Osmosis pooler and the outpost, and, external, the proxy and the pool | operators, as above |
| `OsmoPol` | the same holder with the Osmosis pooler, and the requests, answers and transfers between the chains | one action per transaction or delivery |
| `InterchainAccount` | `ica.rs`: the account of a forwarder | operators |
| `SwapHolder` | `swap-holder` and `native-splitter` | operators |
| `SwapCovenant` | forwarders with their accounts and channels, swap holder, splitter, routers, and the transfers between the chains | one action per transaction or delivery |
| `AtomicSwap` | what a swap covenant promises | abstract specification: an escrow that swaps both contributions or gives coins back |
| `RemoteChainSplitter` | how `remote-chain-splitter` divides an amount | operators |
| `SinglePartyPolHolder` | `single-party-pol-holder` | operators |
| `SinglePartyPol` | the single-party covenant: splitter, forwarders and staker with their accounts, Astroport pooler, holder, router | one action per transaction, packet or delivery |
| `PayoutRouters` | `native-splitter`, `native-router`, `interchain-router` with unexpected coins, fees, fallbacks and migrations | one action per message or delivery |
| `CovenantDeployment` | `swap-covenant`, `two-party-pol-covenant`, `single-party-pol-covenant` | one action per message of the instantiation; migration |
| `ClockProofs`, `TwoPartyPolProofs`, `OsmoPolProofs`, `SwapProofs`, `SinglePartyPolProofs`, `PayoutProofs` | | theorems and proofs |
| `CoinProofs`, `HolderProofs` | | the lemmas that these share |
| `MCClock`, `MCTwoPartyPol`, `MCOsmoPol`, `MCSwapCovenant`, `MCSinglePartyPol`, `MCPayoutRouters`, `MCCovenantDeployment` | | instances for TLC |

`SwapCovenant` and `SinglePartyPol` share `InterchainAccount`; `TwoPartyPol` and
`OsmoPol` share `TwoPartyPolHolder`; `TwoPartyPol` and `SinglePartyPol` share
`AstroportLiquidPooler` with `AstroportPool`; `Clock` and `CovenantDeployment` share `CwFifo`.

Operators whose comment starts with `Fault:` are altered versions of the
definition that follows them. No action uses them. They exist to confirm that
each property can tell the code from a plausible mistake in it; `PROJECT.json`
pairs each with the property that it breaks.

### Clock

`queue`, `whitelist`, `paused` and `tick_max_gas` are the contract's storage
items; `since` and `last` are histories of who was ticked since whom, and last. A tick moves the head
of the queue to the tail and then calls the receiver in a submessage with
`reply_on_error`: whether the receiver succeeds or fails makes no difference to
the clock (`Tick`), unless the receiver sends `Dequeue` back in the same
transaction (`TickAndDequeue`), which is how the holders leave. Messages that
the code answers with an error are no steps. `ManageWhitelist(remove, add)`
takes the members of the whitelist that the message really removes, and the
list of those that it really adds. Gas amounts are in units of 100 000.

`CarefulAdmin` restricts the admin to not whitelisting an address that is in the
queue already. The code does not check that: such an address has two entries
afterwards, of which Dequeue removes one (see the findings). The clock results
assume it.

### Holder and pooler

A withdrawal from the Astroport pooler is synchronous: Claim, Ragequit or
EmergencyWithdraw sets the withdrawal lock, sends Withdraw to the pooler, which
redeems LP tokens (or, when it has none, sends its whole bank balance) and calls
Distribute on the holder, which pays the routers, updates the allocations and,
if it is done, dequeues itself from the clock. All of that is one action
(`Withdraw` and its users in `TwoPartyPol`), enabled only if every step of it
succeeds. The operators are separate so that a pooler that answers
asynchronously can be composed with the same holder.

Decimals are integers in units of `1/Unit`. A denom is named by the party that
contributes it and a router by its party. The pool is external: it trades one to
one, values LP tokens at what was provided for them and rounds redemptions down;
its own price movements and fees are left out. A tick that the pooler answers
with an error (ratio outside the expected range, single-sided amount over the
limit) is no step.

History variables: `holder.paid` (sent to each router), `deposited`, `unlocked`
(the lockup in force has been over at some moment) and `rawExit` (a withdrawal
of less than everything was served from the pooler's bank balance).

### Osmosis pooler

`OsmoPol` composes the operators of `TwoPartyPolHolder` with a pooler that acts
on another chain. Claim, Ragequit and EmergencyWithdraw only take the holder's
lock and put the pooler in `PendingWithdrawal`; ticks of the pooler then send
requests through polytone, and callbacks bring the answers. `requests`,
`answers` and `transfers` are bags, because polytone's channel and IBC transfers
are unordered and the same request may be under way twice. A request is executed
by the other chain (`Execute...`) or lost: `Lose` stands for a timeout and for
any failure, since the pooler rejects an answer with an error or only logs it.
A transfer arrives or bounces back to its sender. When the pool rejects an
exit, the outpost answers all the same (`ExecuteRejectedExit`). `pooler.latest`
is the map of balances last reported, whose three entries are always written and
removed together; the payloads of a state disappear when it is left (`Enter`).

`Prompt` restricts ticks and withdrawals to moments when no request is under
way. The code does not enforce that: anyone may tick the clock at any time. It
separates what retries and lost messages do by themselves (`osmo_prompt`) from
what impatient ticks do; `osmo_late` and `osmo_double_redemption` do without it.

### Token swap

`SwapCovenant` follows a party's coins: from its interchain account (`account`)
by an `ibc-forwarder` to the swap holder, from there to the splitter or, after
the lockup, back to the party's router, and from the router to the party
(`received`), over IBC for the parties in `Interchain`.

The forwarder of such a party has two storage items, the contract state and the
entry of its account, in `forwarder`; `channel`, `sent` and `stale` are the
chain's side of the account. The channel is ordered: the packet at the head of
`sent` is executed or times out; a timeout closes the channel, and the packets
behind it are reported as timed out one by one (`TimeoutRest`), each with a call
of `sudo_timeout`, which may fall before or after a new registration. Answers to
packets change nothing in the contract. A tick submits a transfer of the whole
contribution whatever is on the account, and several may be under way at once.

A timeout may also be reported after the next channel is open (`stale` counts
what is still to be reported). `sudo_timeout` does not compare channels, so it
resets a forwarder whose channel is open, whose registrations the chain refuses
from then on: such a party is `Forgotten`, and `LateDepositsComeBack` speaks of
the others. `AccountInStep` holds all the same, so that the branches of the code
for a contract that is in `IcaCreated` without an account are never taken.

The holder's lockup may be moved by a migration, before or after it has
expired. Left out here: other denoms than the two of the covenant (a fallback
packet only takes a place in the channel) and fees, which are in
`PayoutRouters`. The clock's queue is not repeated: the holder's `queued` says
whether it is in it, the other contracts never leave.

### Single-party covenant

`SinglePartyPol` follows the party's coins around: from the account of the
remote splitter to the accounts of two forwarders, from one of them through the
account of the liquid staker, and into the Astroport pooler; from there through
the holder and the router home. The four contracts with an account go through the
same life cycle as the swap's forwarders (`contract`, `channel`, `sent`, `stale`):
no contract looks at what it has under way already, so a channel carries several
packets in order, and the packets behind one that timed out are reported one by
one (`TimeoutRest`), maybe after the next channel is open. A contract that is
reset then is `Forgotten`, and if it stays so its coins do: `EverythingComesBack`
speaks of the other behaviours. The
splitter's tick asks its receivers for their addresses and fails if one has none
(`ReceiversReady`); the packet it submits carries the outputs, computed with the
shares of that moment, each rounded down and the rest added to the first
receiver's. A forwarder to the staker waits until the staker has an address.
Anyone may ask the staker for a transfer of any amount. A packet that asks for
more than the account holds fails on the other chain and changes nothing. A
claim or an emergency withdrawal goes through pooler and holder in one
transaction, as in `TwoPartyPol`; it may be repeated.

Migrations of the lockup, of the splits, of a forwarder's amount and of the
pooler's limits happen at any moment; splits that do not add up and lockups that
are over are refused. Stride's autopilot is external: it stakes what arrives, one to one.

### Payout

In `PayoutRouters` coins come to the splitter and to the routers from outside
(`Deliveries`), those of the covenant, `Foreign` ones and the chain's own
(`Ntrn`). A tick of the splitter divides every configured denom that is there
and fails as a whole if a part of one of them is zero. A native router sends its
target denoms to its party, an interchain router sends each as an IBC transfer
that costs `Fee` and of its own coin keeps a reserve, counted by the coins it
sends now. The fallback messages, which anyone may call, must not name a target
denom (or one with a split), and for an interchain router the caller brings the
fees. The list of denoms in a fallback message is a `Vec` that nobody checks for
repetitions: it is modelled as the set of its denoms and the number of times that
untrn is listed `again`. Each mention of untrn is a message that sends the same
balance less the same reserve, so that a second one eats into the reserve
(`ReserveKept` makes an exception of it); another coin listed twice is an
overspend, and the call fails. Migrations replace the splits, which the code does not validate, and the
target denoms.

### Deployment

`CovenantDeployment` takes every configuration of the three covenants (`Init`
chooses it), and executes the instantiation message by message: the clock with
its initial queue and whitelist, then each contract, some of which enqueue
themselves. Any of them, the clock included, may refuse its part; that, or an
Enqueue which the clock refuses, undoes all (`Revert`). `SendsTo` is the wiring:
where each contract has been told to send coins; `PathsLeadHome` follows it from
the deposit address to the routers and excludes circles, but for the one between
the two-party holder and its pooler, which is the withdrawal. `UpdateCovenant` is the covenant's migration: new codes on record, and
contracts migrated to the codes on record.

## Runs

| run | instance | shows |
|---|---|---|
| `clock` | three contracts and a wallet, one queued at instantiation, `MaxCount` 7, `MaxAdd` 2 | the two maps stay inverse, nobody is overtaken, only authorised contracts are ticked, and the clock implements `RoundRobin` |
| `two_party_share` | share covenant, stable pair, explicit splits for both denoms | conservation, agreement of the phases, shares, no second exit, lockup; deposits are forwarded or refunded; the covenant ends |
| `two_party_side` | side covenant, xyk pair, one explicit split and the fallback split | splits and penalty up to rounding, also after a ragequit (see findings) |
| `two_party_raw_exit` (violation) | as `two_party_share` | see findings |
| `osmo_prompt` | share covenant on Osmosis with a committee, `Prompt` | phases and shares through lost, refunded and repeated messages; who leaves is paid; withdrawals through a proxy end |
| `osmo_late` | without a committee, not `Prompt`, symmetric parties | conservation, no orphaned lock |
| `osmo_double_redemption` (violation) | as `osmo_late` | see findings |
| `swap` | one party on another chain, terms 2 and 3 | conservation, account and channel in step, all or nothing; the swap is paid out, late deposits come back, and the covenant implements `AtomicSwap` |
| `single_party` | 4 coins split 2/3 to 1/3, two packets of the splitter under way, one timeout, one migration, fallback call or emergency | conservation, coins only on accounts that were opened, nothing back before the lockup; everything comes back unless a late timeout strands a contract |
| `payout` | one party on another chain, five deliveries, one migration, two fallback calls | shares; fees kept for the next transfer unless untrn is listed twice (see findings); everything is paid out |
| `deployment` | every configuration of all three covenants | Astroport deployments go through, everybody is queued once, coins get home and in no circle |
| `deployment_osmosis` (violation) | POL covenants with an Osmosis pooler | see findings |

Bounds. Clock: seven enqueues with one contract queued at the start allow six
ticks or joins, enough for every contract to be served twice, leave and come
back; more would only renumber ids. A message adds at most two
addresses, which is what makes the order of additions visible. Two-party: a unit
of four quarters with allocations of 1/2 and a penalty of 1/4 tells the
allocation, the allocation less the penalty, and the rest apart; splits of 3/4
and 1/4 make roundings uneven; contributions are 4, deposits may be short (3 or
1), exact, or in excess (5 or 7), so that halves and quarters do not come out
even and coins stay behind in the pooler; time 0 to 3 has the deposit deadline,
the lockup, a moved deadline, and one moment past all of them. Nothing
in the contracts counts further than that.

Osmosis: two messages under way are what one tick sends at most
(`TickProvideLiquidity`), and enough for an answer to overtake another and for a
redemption to be sent twice; deposits and splits are exact halves, which the
shares need only to be told apart from more than a share. These runs do not
check deadlock: a pooler that waits in `PendingWithdrawal` without a proxy, or
time at its bound, is a state in which nothing more happens.

Swap: deposits of 2 and 3 up to a total of 4 and 3 against terms of 2 and 3 can be
short, exact, in excess, in two parts of which one is late, and not a multiple
of what the forwarder sends; halves of 3 coins leave a remainder in the
splitter. Two packets under way let one time out behind another, and one call of
the fallback puts a packet of another kind between them. The parties are not
symmetric: one goes through every interchain step and the other through every
native one. One late timeout (`MaxStale`) is enough to reset a forwarder that
works; a lockup that is moved once can be moved before and after it has expired.

Single-party: 4 coins in shares of 2/3 and 1/3 leave one over for the first
receiver; the forwarders send 2 at a time, so that coins stay below an
amount, and an amount that was migrated to 1 sends them on. One timeout, of any
packet or transfer, closes any of the four channels at any point; one migration,
fallback call or emergency withdrawal falls anywhere in between (`MaxExtras`). Two
packets in the splitter's channel (`MaxPackets`) are enough for one to be reported
late and reset a splitter that works; the other contracts have the same life
cycle and one packet each, which keeps the run at 350 thousand states. Transfers of 2 from the staker can be more than is there.
Time 0 to 1 has the lockup; one that a migration moves to 2 is not reached, so
that the run shows of it that the position stays closed.

Payout: two deliveries of the shared denom, of 7 and 6 in shares of 3 to 1, leave
a coin that is divided again with the second one or not; untrn for four fees against two denoms of the covenant
and a foreign one can be sent on, reserved and used up, and a fallback message
may list it once more (`MaxAgain`); the migrated splits are
one that gives away too much and one that lacks a denom. Transfers may time out
any number of times, each time for a fee. A deployment has no bound but one
migration (`MaxUpdates`).

Fairness. The clock's ticks are called by anyone (in practice by bots), so the
models assume that ticks keep happening while the clock is not paused: strong
fairness, because the admin may pause and resume it over and over. That each
contract gets its turn as long as there are ticks is what `NoOvertaking` and the
refinement of `RoundRobin` establish for the clock (both are safety properties:
nothing here assumes that anybody calls it), and `TwoPartyPol` uses it as fairness of `HolderTick`
and `PoolerTick`. Block time
advances (weak fairness). A party that may claim does so at some time; nobody is
assumed to deposit, ragequit, call the committee or migrate anything. In
`OsmoPol` relayers deliver every answer (weak fairness), and a request or a
transfer that is made again and again succeeds at some time (strong fairness of
its execution), because each can time out any number of times. `SwapCovenant`
assumes the same of packets and transfers; `DistributeFallback`, which anyone
may call for a fee, is called finitely often, for otherwise it could keep the
forwarder's packet behind another one each time the channel closes. The
liveness properties carry the condition that the clock is not paused for good.
`SinglePartyPol` and `PayoutRouters` have no clock to pause, so weak fairness of
each contract's tick is enough. In `SinglePartyPol` the other chain executes what is
first in each channel (weak fairness of `Execute` for each of the four);
registrations, acknowledgements and late timeouts come to an end, because
timeouts are bounded, so for them it is enough that some contract's goes on.
Somebody asks the staker over and over for what is on its account (strong
fairness, since others may keep the channel busy). `PayoutRouters` assumes only that every
transfer ends, delivered or refunded: a router runs out of untrn if it is always
refunded, and `EverythingPaidOut` allows for it.

## Findings

Three runs end in a violation and compare a statement in the repository with
the code; `PROJECT.json` quotes the lines.

* `two_party_raw_exit`: a party that ragequits after the deposits were forwarded
  and before the pooler was ticked receives the whole of both deposits, because
  without LP tokens the pooler ignores the percentage.
* `osmo_double_redemption`: every tick in `PendingWithdrawal` sends the
  redemption again. Two of them before the first answer redeem the share twice,
  and the party that leaves is paid from the other party's part.
* `deployment_osmosis`: a POL covenant puts its pooler into the clock's initial
  queue, and the Osmosis pooler enqueues itself when it is instantiated; the
  clock refuses that, and the whole deployment is reverted.

Two more show in runs that pass, because their properties state what the code
does:

* `two_party_side`: the holder's README says that a ragequit voids the agreed
  split of a side covenant and that both parties then get half
  (`two-party-pol-holder/README.md:28`). The code keeps the split and shifts the
  penalty from the party that quits to the other one, which is what
  `SidesRespected` says.
* `payout`: a fallback of an interchain router that lists untrn twice sends the
  balance less the reserve twice. With four fees to start with nothing is left
  for the next transfer, against the comment at `covenant-utils/src/lib.rs:255`.
  `ReserveKept` excepts that call, and the router pays again once it gets more
  untrn. `remote-chain-splitter` refuses such a list.

Also met while modelling, with no run of their own:

* Whitelisting a contract that is already queued (the covenants queue poolers
  and forwarders without whitelisting them) gives it two entries. Dequeue removes
  one, and the contract goes on being ticked.
* A ragequit or an emergency before the Osmosis proxy exists makes every later
  tick of the pooler error (`osmo-liquid-pooler/src/contract.rs:519`); the holder
  stays locked.
* After one of the two funding transfers to Osmosis was refunded, the pooler
  waits in `ProxyCreated` for good, because a retry needs both contributions
  (`:622`); a withdrawal still gets it out.
* The migration of `native-splitter` has the comment "we validate each split
  before storing it" (`native-splitter/src/contract.rs:186`) and does not
  validate it. Shares that add up to more than one make every tick fail.
* Coins of one denom that are too few to be shared make the whole tick of the
  splitter fail, the other denoms included, until more of that denom arrives.
* The interchain router's reserve is counted by the coins of the tick that sends
  untrn, not by its target denoms: coins that come later may find no fees.
* The two-party covenant does not check that the splits cover both denoms, and
  its holder skips splits that are invalid instead of refusing them.
* The single-party holder takes only withdrawals of two coins. Coins of one denom
  that the Astroport pooler cannot provide alone (over the limit) can be withdrawn
  by nobody, the committee included, until some of the other denom arrive
  (`Settled` in `SinglePartyPol` allows for them).
* A single-party covenant whose forwarder configurations are `Native` deploys
  (`Complete` in `CovenantDeployment` excludes it), and its splitter can never
  split: it asks forwarders that do not exist.
* `FIFOQueue::remove` is documented not to error for an element that is not
  queued (`packages/cw-fifo/src/lib.rs:74`), and errors: a whitelisted contract
  that has dequeued itself cannot be taken off the whitelist (the guard of
  `ManageWhitelist`).
* `Complete` is documented as "underlying funds have been withdrawn"; coins that
  did not fit the pool's ratio stay in the Astroport pooler, where neither party
  can claim them any more.
* The outpost reports `refund_tokens` also when the pool rejected the exit
  (`ExecuteRejectedExit`); the pooler takes that for a withdrawal, and the
  claiming party loses its allocation and gets nothing (the exception that
  `LeaversArePaid` makes). The branch of the
  callback that would send `WithdrawFailed` is never reached with this outpost.
* The Osmosis pooler's README says that the balances callback transfers LP
  tokens back to the pooler, which the code does not do.
* The emergency withdrawal leaves the withdrawal lock set for good and pays by
  the splits also a party that has already left (`NoSecondExit` makes an
  exception of it).
* A paused clock refuses Dequeue, so the exit that completes a covenant, an
  emergency withdrawal included, is reverted until the clock is resumed.
* Coins that reach the two-party holder after activation are not forwarded, and
  only the fallback split moves those without an explicit split. Coins that
  reach a swap holder in state `Complete` stay there for good: a second deposit
  through a forwarder, for instance, which goes on forwarding.

## Proofs

Everything proved holds for all values of the constants that satisfy the named
assumptions (`ClockConstants`, `HolderConstants`, `PoolerConstants`,
`CovenantConstants`, `OsmoConstants`, `OsmoPolConstants`, `SwapConstants`,
`SwapCovenantConstants`, `SplitterConstants`, `SinglePartyConstants`,
`PayoutConstants`): what `instantiate` validates, and nothing about sizes. Two theorems about
`OsmoPol` have hypotheses on its constants besides, which they state.

| module | theorems | inductive invariant |
|---|---|---|
| `ClockProofs` | `ClockType`, `ClockMapsInverse`, `ClockNoOvertaking`, `ClockTickedIsAuthorised`, `ClockImplementsRoundRobin` | `IInv` |
| `TwoPartyPolProofs` | `TwoPartyType`, `TwoPartyConservation`, `TwoPartyPhasesAgree`, `TwoPartyLockup`, `TwoPartyNoSecondExit`, `TwoPartySides`, `TwoPartyShares` | `IInv`, then `Opened`, `Quiet`, `Backed` and `QuitterAllowed` |
| `OsmoPolProofs` | `OsmoType`, `OsmoLock`, `OsmoConservation`, `OsmoPhases`, `OsmoShares`, `OsmoLeaversArePaid` | `TypeInv`, then `Books`, `HolderPhases`, `OneExit`; `SharesInv` |
| `SwapProofs` | `SwapType`, `SwapAccountInStep`, `SwapAllOrNothing`, `SwapConservation`, `SwapImplementsAtomicSwap` | `IInv`, `BooksInv` |
| `SinglePartyPolProofs` | `SinglePartyType`, `SinglePartyOpened`, `SinglePartyLockup`, `SinglePartyConservation` | `TypeInv`, `AccountsOpened`, `LockupSeen`, `Books` |
| `PayoutProofs` | `PayoutType`, `PayoutReserve`, `PayoutShares` | `SharesInv` |

### Shared lemmas

`CoinProofs` has three groups. Rounding: a part rounded down is at most the
whole, two complementary parts come to at most the whole, and what a part and
one more coin are worth; what a share of LP tokens redeems when tokens and coins
are both rounded. Sums: `Carried`, what a bag of transfers carries, is a
fold over the bag's elements, and the lemmas say that adding or removing a
transfer changes the sum by its amount. The library's induction over finite sets
takes an operator, which the provers cannot instantiate; the lemmas go through
`WFMin` instead: among the finite sets for which the sum is not what it should be
there would be a smallest one, and taking an element out of it gives a smaller
one. Pool: what provision and redemption do to the account of an Astroport
pooler, in total and, for a stable pair, in each denom.

`HolderProofs` says of each operator of `TwoPartyPolHolder` what it pays to
whom, that it pays no more than there is, and which phase it leaves the holder in.
Both two-party covenants use it.

### Clock

All assume `CarefulAdmin`. `NoOvertaking` is not inductive: it speaks of the head
only. The invariant adds that for any two queued contracts a and b, if b was
ticked since a was last served then b's entry is behind a's (`Behind`), and that
the storage maps are functions with ids below the counter (`WellFormed`); serving
the head gives it an id above all others, removing an entry keeps the order of
the rest, and adding one puts it behind everybody with an empty history.

The refinement of `RoundRobin` maps the line to the set of queued contracts and
its order to the pairs whose ids are in that order. In a well-formed queue the
second map alone decides both (`LineFacts`); one lemma per operation of the queue
says what it does to them, and each action of the clock is then a step of the
line, the change of the gas limit a stuttering one.

### Two-party covenant

`TwoPartyType`, `TwoPartyConservation` and `TwoPartyPhasesAgree` come from `IInv`,
the conjunction of the three properties. They need each other: that a payment does
not exceed the balance (type) rests on the splits of a denom adding up to one
after a penalty was shifted, which rests on the ragequit terms (phases); that
the final Dequeue finds the holder queued rests on the phases too.

The rest is proved on top of `IInv`. For `LockupHolds`: a holder that is
`Expired`, or whose lockup is over, has been seen unlocked (`Opened`), because
time reaches a deadline only by passing and a migration sets none that is past.
For `NoSecondExit`: every step either leaves allocations and payments alone
(`Bystander`) or is an exit, an emergency or a refund, and an exit of one party
does not pay the other. `SidesRespected` adds that nobody was paid before the
first exit (`Quiet`), so that the payments of a side covenant are those of one
withdrawal. `SharesRespected` adds that in a stable pair what is not paid out of a
denom was deposited of it (`Backed`), and that only an enabled ragequit has terms.

Two of these had to be stated more carefully before they could be proved. An xyk
pool may give back the denoms in another proportion than they were provided
in, so a share is one of the total there and one of each denom in a stable pair
only; a denom without a split of its own goes by the fallback split, whoever
leaves, and does not count (`TakenOf`). A party whose agreed allocation is zero
has not left (`HasLeft`).

### Osmosis

`TypeInv` adds to the types that the transfers form a finite bag. `LockMatchesPooler`
is inductive with it. `Books` is one account per denom: what the holder has and
has paid, what is on the pooler, at the proxy and in the pool, and on the way
between the chains, adds up to what was deposited, however often a request is
executed. For `PhasesAgree`, `HolderPhases` adds in which phases a claim and a
ragequit can be under way (a tick may expire the lockup in between), and
`OneExit` that under `Prompt` a redemption is alone under way and the pooler waits
for it.

`SharesRespected` and `LeaversArePaid` do not hold for all constants, and are
proved on terms that the theorems state as hypotheses.

* `EvenTerms`: the contributions are in the pool's proportion, and nobody acts
  on the pooler while it waits (`Prompt`). Of uneven contributions, coins that
  did not fit stay at the proxy. When a withdrawal is distributed, every tick
  asks the proxy for the coins that are missing, several requests may be
  executed, and the coins that come home are then those left-overs too; all that
  has arrived is paid to the party that leaves. Without `Prompt` two redemptions
  may be executed for one share, which is the finding of the run
  `osmo_double_redemption`.
* `WorthACoin`, for `LeaversArePaid` only: both denoms have a split, and each
  share that a party can leave with, a ragequit's penalty deducted, is worth at
  least one coin of each denom. A smaller share rounds down to nothing.

Both hold in the instance of the run `osmo_prompt`. The invariant `SharesInv` follows
the coins on their way, and has three parts beyond the accounts of `Books`.
`Entering`: coins only gather at the proxy until the pooler has seen both
contributions there; what is then reported of them is everything or nothing, so
that liquidity is provided once and whole (`Outside` or `Inside`). `Redeeming`: a
pooler that redeems was asked for the share that the holder's lock stands for
(`Asked`), and the LP tokens it knows of are the ones there are. `FirstExit`: as
long as nobody has left, an executed redemption, its answer and the
distribution after it stand for coins that are at most that share of the
contributions, and that are all there is outside the pool (`TakenOut`), which is
why whatever has arrived at the pooler is exactly what may be paid. Tokens and coins are
both rounded down; `RedeemedPart` and `RedeemedCoin` of `CoinProofs` bound the
result from above and below. `Settled` keeps what a party has been paid, for the steps
after its exit.

### Swap

For any terms, splits and deposits, with none, one or both parties on another
chain. `AccountInStep` is inductive as it stands, with late timeouts too: each of
them forgets the account and resets the state in one step. `SwapOrRefund` speaks
of coins that have reached the other party; `PhasesOfSwap` adds where they have
come from: before the holder completes the splitter is empty and no coin is on
the way to the other party, a completed holder has handed over both
contributions, and only an expired one has refunded. Terms are positive (with a
term of zero and no deposit the code never forwards). `Conservation` also needs
that what comes to the holder over IBC is the party's own denom (`InboundOwn`),
and the sums of `CoinProofs`.

The refinement of `AtomicSwap` maps the escrow to what is on the accounts, on the
way to the holder and with the holder, the pot to the splitter, and what a party
owns to what its router has, what is on the way from there and what it has
received. The abstract specification names no chain, contract or transfer: a
party pays in, both contributions are swapped at once or the swap is called off,
the pot is divided by the agreed shares, and coins of a swap that was called off
go back to whom they are from. The proof has one lemma for each action that moves
coins between these three (`DepositPaysIn`, `ForwardSwaps`, `ExpireCallsOff`,
`RefundGivesBack`, `SplitDivides`), and one for each group that does not: packets
that execute, time out or are reset, transfers that arrive or come back, and
routers that send are stuttering steps, because the sums over the bag of transfers
change by exactly what an account, the holder or a router gains or loses. It
uses the books and `PhasesOfSwap`: that the splitter is empty until the holder
completes is what makes the one swap fill the pot.

### Single-party covenant

The invariant has four layers, each proved with those before it. Types: a packet
outlives a migration of the shares or amounts it was made from, so these are
among the known ones (`Known`), of which only valid shares are ever stored; every
packet of a channel is one that was made from them, wherever it is in the
sequence. `AccountsOpened`: a contract that knows its
account, a packet that is under way and a transfer to an account all mean that
the account was opened. `LockupSeen` plays the part of `Opened` in the
two-party covenant.
`Books` is the account of the party's coins over the four interchain accounts,
the transfers under way, the pool and the way back; what a packet moves adds up
because the splitter gives what rounding leaves to the first receiver.

### Payout

`PayoutReserve` is an action property, proved from the types by one case for each
way a router can lose coins. It holds of every step that does not send untrn more
than once, which is also how it is stated: a list with repetitions is in the
model, and the lemmas count the copies of a transfer that it adds (`CopiesSent`). For `SharesRespected` the invariant keeps a ledger
for every party and denom (`Fair`): until a split leaves a remainder, what the
party has got and its share of what is still on the splitter are covered by its
share of what was delivered. A remainder is one coin, it stays until the next
delivery, and is then divided again: of 7 and then 6 coins in shares of 3 to 1 the
first party gets 5 and, of 7, again 5, which is 10 although its share of 13 is
9.75. `Redivided` counts that coin, once per delivery but the first; without it
the property is false.

### Only model-checked

* The liveness properties.
* Everything about `CovenantDeployment`: its constants are only bounds, and the
  run enumerates every configuration, so a theorem would add little to it.

## Not modelled

Queries other than the deposit address, response attributes, address validation
and serialisation have no effect on the state. Migrations that replace
addresses, allocations, parties, chain data, the withdrawer or the LP
configuration may install any configuration, after which no property of the
agreed one can be expected; those of deadlines, splits, amounts, limits of
single-sided provision, target denoms and codes are modelled. The pool's prices and slippage are external, and so are
Stride's exchange rate and the packet forwarding of transfers over a second hop.
The operation mode decides who may tick; since anyone may tick the clock, it
does not restrict when a contract is ticked. `WithdrawFailed` of the single-party
holder is never sent by the Astroport pooler. `covenant-macros` generates message
types, and `clock-tester` is a test contract whose succeeding and failing ticks
are both steps of `Clock`.

## Plan

1. Theorems: `QueuedOnce` and `AstroportDeploymentSucceeds` of
   `CovenantDeployment` by one invariant on the messages still to be executed.
2. The single-party covenant with the Osmosis pooler, once it can be deployed.
3. `OsmoPol` without `Prompt` but with liveness: which withdrawals still end
   when stale balances may decide what is collected.
