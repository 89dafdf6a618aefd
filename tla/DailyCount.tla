----------------------------- MODULE DailyCount -----------------------------
(***************************************************************************)
(* The daily sending limit (Circuit.daily_sends, over_daily_limit and the  *)
(* bulk send's own check).  Each mail consumer decides from a count of the *)
(* recipients of SETTLED submissions, which it re-reads for every message  *)
(* only when its last count was near the limit; submissions on their way   *)
(* are in no count.  Nothing leaves the 24-hour window here: what leaves   *)
(* it only lowers every count.                                             *)
(***************************************************************************)
EXTENDS Naturals, FiniteSetsExt, SequencesExt

CONSTANTS
  Sender,
  Sizes,      \* recipients of a message
  BatchSizes, \* recipients of a message the bulk send takes
  MaxSize,    \* the SQL cap on them: 100
  Limit,      \* DAILY_SEND_LIMIT
  Reserved,   \* RESERVED_SENDS, kept from invitations and reminders
  Near,       \* NEAR_DAILY_LIMIT
  Batch,      \* SEND_BATCH; 0 when the bulk send is off
  MaxCrashes  \* bound: consumers that die with messages on their way

ASSUME DailyConstants ==
  /\ {Limit, Reserved, Near, Batch, MaxCrashes} \subseteq Nat
  /\ MaxSize \in Nat \ {0} /\ Sizes \subseteq 1 .. MaxSize
  /\ BatchSizes \subseteq Sizes
  /\ Reserved + Near <= Limit /\ MaxSize <= Limit - Reserved

\* The comments on the constants: the reserve holds two largest messages, and
\* "near" is at least one.
ASSUME ReserveHolds == 2 * MaxSize <= Reserved /\ MaxSize <= Near

\* An assumption of this module: a whole batch has no more recipients than one
\* largest message may have.
ASSUME SmallBatches ==
  \A sizes \in SeqOf(BatchSizes, Batch) :
    FoldLeft(LAMBDA total, size : total + size, 0, sizes) <= MaxSize

VARIABLES
  settled,   \* recipients of accepted and uncertain submissions
  counted,   \* each process's last count; Unread before the first
  sent,      \* the count a consumer took for its next message
  flight,    \* the messages each consumer has submitted and not settled
  lost,      \* messages of consumers that died, until recovery counts them
  crashes,   \* how many died
  peak       \* history: the most in the provider's hands at a Family send

dailyVars == <<settled, counted, sent, flight, lost, crashes, peak>>

Unread == Limit + 1
NoCount == Limit + 2
BulkLimit == Limit - Reserved

DailyInit ==
  /\ settled = 0
  /\ counted = [c \in Sender |-> Unread]
  /\ sent = [c \in Sender |-> NoCount]
  /\ flight = [c \in Sender |-> <<>>]
  /\ lost = <<>> /\ crashes = 0 /\ peak = 0

Total(sizes) == FoldLeft(LAMBDA total, size : total + size, 0, sizes)

-----------------------------------------------------------------------------
MustRead(c) == counted[c] = Unread \/ counted[c] >= BulkLimit - Near

\* The rate the code assumes: fewer than Near recipients are settled between
\* a count and its use, or while a cached count is not yet too old.
Usable(count, total) == total < count + Near

\* daily_sends, before the message's first transaction.
Count(c) ==
  /\ sent[c] = NoCount /\ flight[c] = <<>>
  /\ \E fresh \in BOOLEAN :
       /\ fresh \/ (~MustRead(c) /\ Usable(counted[c], settled))
       /\ counted' = [counted EXCEPT ![c] = IF fresh THEN settled ELSE @]
       /\ sent' = [sent EXCEPT ![c] = counted'[c]]
  /\ UNCHANGED <<settled, flight, lost, crashes, peak>>

\* Mutant: a Family message is compared with the whole limit.
OverDailyLimitWhole(bulk, count, size) == count + size > Limit

OverDailyLimit(bulk, count, size) ==
  count + size > (IF bulk THEN BulkLimit ELSE Limit)

\* What the provider has, or may have, been handed.
Handed ==
  settled + Total(lost)
    + FoldSet(LAMBDA c, n : n + Total(flight[c]), 0, Sender)

HandOver(c, bulk, sizes) ==
  /\ flight' = [flight EXCEPT ![c] = sizes]
  /\ peak' = IF bulk THEN Max({peak, Handed + Total(sizes)}) ELSE peak

\* One message, a Family's (bulk) or a receipt: held at the limit, or
\* submitted some transactions after its count was taken.
Single(c, bulk, size) ==
  /\ sent[c] # NoCount
  /\ IF OverDailyLimit(bulk, sent[c], size) THEN UNCHANGED <<flight, peak>>
     ELSE HandOver(c, bulk, <<size>>)
  /\ sent' = [sent EXCEPT ![c] = NoCount]
  /\ UNCHANGED <<settled, counted, lost, crashes>>

\* A batch: one count for all of it, one largest message short of the limit.
Bulk(c, sizes) ==
  /\ sent[c] # NoCount /\ sizes # <<>>
  /\ sent[c] + Total(sizes) <= BulkLimit - MaxSize
  /\ HandOver(c, TRUE, sizes)
  /\ sent' = [sent EXCEPT ![c] = NoCount]
  /\ UNCHANGED <<settled, counted, lost, crashes>>

\* An outcome is stored; the provider counts accepted and, it may be,
\* uncertain messages (counts), never refused ones.
SettleCounted(c, counts) ==
  /\ flight[c] # <<>>
  /\ settled' = settled + (IF counts THEN Head(flight[c]) ELSE 0)
  /\ \A d \in Sender : sent[d] # NoCount => Usable(sent[d], settled')
  /\ flight' = [flight EXCEPT ![c] = Tail(@)]
  /\ UNCHANGED <<counted, sent, lost, crashes, peak>>

Crash(c) ==
  /\ crashes < MaxCrashes
  /\ crashes' = crashes + 1
  /\ lost' = lost \o flight[c]
  /\ flight' = [flight EXCEPT ![c] = <<>>]
  /\ sent' = [sent EXCEPT ![c] = NoCount]
  /\ counted' = [counted EXCEPT ![c] = Unread]
  /\ UNCHANGED <<settled, peak>>

\* Recovery records a lost submission as uncertain.
RecoverLost ==
  /\ lost # <<>>
  /\ settled' = settled + Head(lost)
  /\ \A d \in Sender : sent[d] # NoCount => Usable(sent[d], settled')
  /\ lost' = Tail(lost)
  /\ UNCHANGED <<counted, sent, flight, crashes, peak>>

DailyNext ==
  \/ \E c \in Sender :
       \/ Count(c) \/ Crash(c)
       \/ \E bulk \in BOOLEAN, size \in Sizes : Single(c, bulk, size)
       \/ \E sizes \in SeqOf(BatchSizes, Batch) : Bulk(c, sizes)
       \/ \E counts \in BOOLEAN : SettleCounted(c, counts)
  \/ RecoverLost

DailySpec == DailyInit /\ [][DailyNext]_dailyVars

-----------------------------------------------------------------------------
\* Every variable has its type; only a batch is more than one message.
DailyTypeOK ==
  /\ settled \in Nat /\ peak \in Nat /\ crashes \in 0 .. MaxCrashes
  /\ counted \in [Sender -> Nat] /\ sent \in [Sender -> Nat]
  /\ \A c \in Sender :
       /\ flight[c] \in Seq(Sizes) /\ Len(flight[c]) <= Max({1, Batch})
       /\ sent[c] # NoCount => sent[c] <= settled /\ flight[c] = <<>>
  /\ lost \in Seq(Sizes)

\* At the moment a Family send is submitted, the provider has at most
\* DAILY_SEND_LIMIT of the deployment's recipients in all, and a largest
\* message more for every consumer that died with one (daily_sends): what two
\* processes do not see of one another is made up for by the sends kept back
\* for receipts and alerts (RESERVED_SENDS), which may be used up by it.
FamilyKeepsReserve == peak <= Limit + crashes * MaxSize

\* The daily limit holds, with its reserve, for two processes that each count
\* by themselves.
DailySafe == DailyTypeOK /\ FamilyKeepsReserve
=============================================================================
