--------------------------- MODULE WaitersProofs ---------------------------
(***************************************************************************)
(* The six polling loops, for every timeout, interval, length of a call    *)
(* and lateness of a sleep: when they may give up, what they are sure to   *)
(* see, how long they take and how often they poll.                        *)
(***************************************************************************)
EXTENDS Waiters, Integers, TLAPS

-----------------------------------------------------------------------------
(* Whole seconds.                                                          *)

LEMMA Constants ==
    /\ Second \in Nat \ {0} /\ Interval \in Nat \ {0} /\ MaxCall \in Nat \ {0}
    /\ Timeout \in Nat /\ MaxLate \in Nat /\ Horizon \in Nat
BY WaitersAssumption

(* int(time.time()) is less than a second behind the clock.                *)
LEMMA Truncation ==
    ASSUME NEW t \in Nat
    PROVE  /\ t \div Second \in Nat
           /\ Second * (t \div Second) <= t
           /\ t < Second * (t \div Second) + Second
BY Constants

LEMMA ClockGoesOn ==
    ASSUME NEW t \in Nat, NEW u \in Nat, t <= u, NEW s \in Nat, s <= t \div Second
    PROVE  s <= u \div Second
<1>1. PICK a \in Nat, b \in Nat : a = t \div Second /\ b = u \div Second
    BY Truncation
<1>2. Second * a <= t /\ u < Second * b + Second
    BY <1>1, Truncation
<1>3. a > b => Second * a >= Second * b + Second
    BY <1>1, Constants
<1>4. Second * a \in Nat /\ Second * b \in Nat
    BY <1>1, Constants
<1>5. ~(a > b)
    BY <1>2, <1>3, <1>4, Constants
<1> QED BY <1>1, <1>5

(* Seconds are compared like the ticks they stand for.                     *)
LEMMA SecondsInTicks ==
    ASSUME NEW a \in Int, NEW b \in Int
    PROVE  /\ Second * a \in Int
           /\ Second * (a + b) = Second * a + Second * b
           /\ a <= b => Second * a <= Second * b
BY Constants

LEMMA SleepTimeType == SleepTime \in Nat /\ SleepTime > 0
<1>1. \A a \in Nat \ {0} : a * Second \in Nat /\ a * Second > 0
    BY Constants
<1>2. Interval \in Nat \ {0} /\ Interval + 1 \in Nat \ {0}
    BY Constants
<1> QED BY <1>1, <1>2 DEF SleepTime

(* A poll more costs a sleep more.                                         *)
LEMMA OneMorePoll ==
    ASSUME NEW n \in Nat
    PROVE  /\ n * SleepTime \in Nat
           /\ (n + 1) * SleepTime = n * SleepTime + SleepTime
BY SleepTimeType

(* A loop that goes on has looked at the clock before Limit.               *)
LEMMA GoesOnBeforeLimit ==
    ASSUME TypeOK, ~Expired
    PROVE  now < Limit
<1> DEFINE sec == now \div Second
<1>1. now \in Nat /\ start_time \in Nat
    BY DEF TypeOK
<1>2. sec \in Nat /\ now < Second * sec + Second
    BY <1>1, Truncation
<1>3. sec <= start_time + Timeout
    BY <1>1, <1>2, Constants DEF Expired, Elapsed
<1>4. Second * sec <= Second * start_time + Second * Timeout
    BY <1>1, <1>2, <1>3, SecondsInTicks, Constants
<1>5. Second * sec \in Int /\ Second * start_time \in Int /\ Second * Timeout \in Int
    BY <1>1, <1>2, SecondsInTicks, Constants
<1> HIDE DEF sec
<1> QED BY <1>1, <1>2, <1>4, <1>5, Constants DEF Limit

(* A loop that gives up has waited for build_timeout, but for a second.    *)
LEMMA GivesUpLate ==
    ASSUME TypeOK, StartInv, pc # "enter", Expired
    PROVE  now - began > (IF waiter \in HeadChecked THEN Timeout ELSE Timeout - 1) * Second
<1> DEFINE sec == now \div Second
           full == IF waiter \in HeadChecked THEN Timeout ELSE Timeout - 1
<1>1. now \in Nat /\ start_time \in Nat /\ began \in Nat
    BY DEF TypeOK
<1>2. sec \in Nat /\ Second * sec <= now
    BY <1>1, Truncation
<1>3. full \in Int
    BY Constants
<1>4. start_time + full + 1 <= sec
    BY <1>1, <1>2, Constants DEF Expired, Elapsed
<1> HIDE DEF sec, full
<1>5. Second * (start_time + full + 1) <= Second * sec
    BY <1>1, <1>2, <1>3, <1>4, Constants
<1>6. Second * (start_time + full + 1) = Second * start_time + Second * full + Second
    BY <1>1, <1>3, Constants
<1>7. began < Second * start_time + Second
    BY DEF StartInv
<1>8. /\ Second * start_time \in Int /\ Second * full \in Int /\ Second * sec \in Int
      /\ full * Second = Second * full
    BY <1>1, <1>2, <1>3, Constants
<1>9. now - began > full * Second
    BY <1>1, <1>2, <1>5, <1>6, <1>7, <1>8, Constants
<1> QED BY <1>9 DEF full

-----------------------------------------------------------------------------
(* The invariant of the loops.                                             *)

LEMMA LoopInvInit == Init => LoopInv
<1> SUFFICES ASSUME Init PROVE LoopInv
    OBVIOUS
<1> USE Constants
<1>1. /\ now \in Nat /\ began = now /\ reached_at \in Nat /\ polls = 0 /\ start_time = 0
      /\ pc = "enter" /\ waiter \in Kinds
    BY DEF Init
<1>2. TypeOK
    BY <1>1, Truncation DEF TypeOK
<1>3. StartInv /\ TimeInv /\ SeenInv
    BY <1>1 DEF StartInv, TimeInv, SeenInv, Ended
<1>4. 0 * SleepTime = 0
    BY SleepTimeType
<1>5. SpacedInv
    BY <1>1, <1>4, SleepTimeType DEF SpacedInv
<1> QED BY <1>2, <1>3, <1>5 DEF LoopInv

\* The lengths of a sleep and a round are those of the waiter, which stays.
LEMMA SameLengths ==
    ASSUME waiter' = waiter
    PROVE  \E W \in Nat : /\ SleepTime = W /\ SleepTime' = W
                           /\ Round = MaxCall + W + MaxLate /\ Round' = MaxCall + W + MaxLate
BY SleepTimeType DEF SleepTime, Round

LEMMA LoopInvEnter ==
    ASSUME LoopInv, Enter
    PROVE  LoopInv'
<1> USE Constants
<1>1. TypeOK /\ now = began /\ polls = 0
    BY DEF LoopInv, TimeInv, SeenInv, Enter
<1>2. /\ now \in Nat /\ began \in Nat /\ polls \in Nat /\ reached_at \in Nat /\ waiter \in Kinds
    BY <1>1 DEF TypeOK
<1>3. /\ now' = now /\ began' = began /\ waiter' = waiter /\ polls' = polls
      /\ reached_at' = reached_at
    BY DEF Enter
<1>4. start_time' = now \div Second
    BY DEF Enter
<1>5. PICK S \in Nat, T \in Nat : S = Second * start_time' /\ T = Second * Timeout
    BY <1>2, <1>4, Truncation
<1>6. start_time' \in Nat /\ S <= now /\ now < S + Second
    BY <1>2, <1>4, <1>5, Truncation
<1>7. /\ waiter \in HeadChecked => pc' = "check"
      /\ waiter = "service" => pc' = "poll"
      /\ waiter = "port" => pc' = "first_poll"
    BY Zenon DEF Enter, HeadChecked
<1>8. /\ pc' \in {"check", "poll", "first_poll"}
      /\ pc' = "check" <=> waiter \in HeadChecked
      /\ pc' = "poll" <=> waiter = "service"
      /\ pc' = "first_poll" <=> waiter = "port"
    BY <1>2, <1>7 DEF Kinds, HeadChecked
<1>9. TypeOK'
    BY <1>1, <1>2, <1>3, <1>4, <1>6, <1>8 DEF TypeOK
<1>10. StartInv'
  <2>1. began' < S + Second /\ S <= began' + MaxCall /\ S <= began'
    BY <1>1, <1>2, <1>3, <1>6
  <2> QED BY <1>5, <2>1 DEF StartInv
<1>11. PICK W \in Nat : SleepTime' = W /\ Round' = MaxCall + W + MaxLate
    BY <1>3, SameLengths
<1>12. TimeInv'
  <2>1. Limit' = S + T + Second
    BY <1>5 DEF Limit
  <2> QED BY <1>1, <1>2, <1>3, <1>6, <1>8, <1>11, <2>1 DEF TimeInv, Ended, HeadChecked
<1>13. Elapsed' = 0
    BY <1>2, <1>3, <1>4, Truncation DEF Elapsed
<1>14. SeenInv'
    BY <1>1, <1>3, <1>8, <1>13 DEF SeenInv, HeadChecked
<1>15. SpacedInv'
  <2>1. 0 * W = 0
    BY <1>11
  <2> QED BY <1>1, <1>2, <1>3, <1>11, <2>1 DEF SpacedInv
<1> QED BY <1>9, <1>10, <1>12, <1>14, <1>15 DEF LoopInv

LEMMA LoopInvSleep ==
    ASSUME LoopInv, Sleep
    PROVE  LoopInv'
<1> USE Constants
<1>1. /\ pc = "sleep" /\ began' = began /\ waiter' = waiter /\ polls' = polls
      /\ reached_at' = reached_at /\ start_time' = start_time
    BY DEF Sleep
<1>2. /\ now \in Nat /\ began \in Nat /\ polls \in Nat /\ reached_at \in Nat /\ start_time \in Nat
      /\ waiter \in Kinds /\ began <= now /\ start_time <= now \div Second
    BY DEF LoopInv, TypeOK
<1>3. PICK W \in Nat : /\ SleepTime = W /\ SleepTime' = W
                       /\ Round = MaxCall + W + MaxLate /\ Round' = MaxCall + W + MaxLate
    BY <1>1, SameLengths
<1>4. PICK late \in 0..MaxLate : now' = now + W + late
    BY <1>3 DEF Sleep
<1>5. pc' = IF waiter = "port" THEN "poll" ELSE "check"
    BY DEF Sleep, AfterSleep
<1>6. TypeOK'
  <2>1. now' \in Nat /\ now <= now'
    BY <1>2, <1>3, <1>4
  <2>2. start_time' <= now' \div Second
    BY <1>1, <1>2, <2>1, ClockGoesOn
  <2>3. began' <= now'
    BY <1>1, <1>2, <2>1
  <2> QED BY <1>1, <1>2, <1>5, <2>1, <2>2, <2>3 DEF TypeOK
<1>7. StartInv'
    BY <1>1, <1>5 DEF LoopInv, StartInv
<1>8. TimeInv'
  <2>1. PICK L \in Nat : Limit = L /\ Limit' = L
    BY <1>1, <1>2 DEF Limit
  <2>2. IF waiter = "port" THEN now < L ELSE now < L + MaxCall
    BY <1>1, <2>1 DEF LoopInv, TimeInv
  <2> QED BY <1>1, <1>2, <1>3, <1>4, <1>5, <2>1, <2>2 DEF TimeInv, Ended
<1>9. SeenInv'
  <2>1. polls # 0 /\ now < reached_at + MaxCall
    BY <1>1 DEF LoopInv, SeenInv
  <2> QED BY <1>1, <1>2, <1>3, <1>4, <1>5, <2>1 DEF SeenInv
<1>10. SpacedInv'
  <2>1. PICK P \in Nat : P = polls * W
    BY <1>2, <1>3
  <2>2. waiter # "domain" => P <= now - began + W
    BY <1>3, <2>1 DEF LoopInv, SpacedInv
  <2>3. waiter # "domain" => P <= now' - began'
    BY <1>1, <1>2, <1>3, <1>4, <2>2
  <2>4. polls' * SleepTime' = P
    BY <1>1, <1>3, <2>1
  <2>5. waiter # "domain" => P <= now' - began' + W
    BY <1>1, <1>2, <1>3, <1>4, <2>3
  <2> QED BY <1>1, <1>3, <2>3, <2>4, <2>5 DEF SpacedInv
<1> QED BY <1>6, <1>7, <1>8, <1>9, <1>10 DEF LoopInv

LEMMA LoopInvCheck ==
    ASSUME LoopInv, Check
    PROVE  LoopInv'
<1> USE Constants
<1>1. /\ pc = "check" /\ now' = now /\ began' = began /\ waiter' = waiter /\ polls' = polls
      /\ reached_at' = reached_at /\ start_time' = start_time
    BY DEF Check
<1>2. TypeOK /\ StartInv
    BY DEF LoopInv
<1>3. /\ now \in Nat /\ began \in Nat /\ polls \in Nat /\ reached_at \in Nat /\ start_time \in Nat
    BY <1>2 DEF TypeOK
<1>4. PICK W \in Nat : /\ SleepTime = W /\ SleepTime' = W
                       /\ Round = MaxCall + W + MaxLate /\ Round' = MaxCall + W + MaxLate
    BY <1>1, SameLengths
<1>5. PICK L \in Nat : Limit = L /\ Limit' = L
    BY <1>1, <1>3 DEF Limit
<1>6. /\ pc' = IF Expired THEN "timeout" ELSE IF waiter = "port" THEN "sleep" ELSE "poll"
      /\ Expired' <=> Expired
    BY <1>1 DEF Check, AfterCheck, Expired, Elapsed
<1>7. TypeOK'
    BY <1>1, <1>2, <1>6 DEF TypeOK
<1>8. StartInv'
    BY <1>1, <1>2, <1>6 DEF StartInv
<1>9. TimeInv'
  <2>1. now < L + MaxCall + W + MaxLate
    BY <1>1, <1>3, <1>4, <1>5 DEF LoopInv, TimeInv
  <2>2. ~Expired => now < L
    BY <1>2, <1>5, GoesOnBeforeLimit
  <2> QED BY <1>1, <1>3, <1>4, <1>5, <1>6, <2>1, <2>2 DEF TimeInv, Ended
<1>10. SeenInv'
  <2>1. CASE polls = 0
    <3>1. waiter \in HeadChecked /\ Elapsed = 0
        BY <1>1, <2>1 DEF LoopInv, SeenInv
    <3>2. ~Expired
        BY <3>1 DEF Expired
    <3> QED BY <1>1, <1>6, <2>1, <3>1, <3>2 DEF SeenInv, HeadChecked
  <2>2. CASE polls # 0
    <3>1. now < reached_at + (IF waiter = "port" THEN MaxCall ELSE MaxCall + W + MaxLate)
        BY <1>1, <1>4, <2>2 DEF LoopInv, SeenInv
    <3> QED BY <1>1, <1>3, <1>4, <1>6, <2>2, <3>1 DEF SeenInv
  <2> QED BY <2>1, <2>2
<1>11. SpacedInv'
    BY <1>1, <1>4, <1>6 DEF LoopInv, SpacedInv
<1> QED BY <1>7, <1>8, <1>9, <1>10, <1>11 DEF LoopInv

(* What holds after any poll.                                              *)
LEMMA PollStep ==
    ASSUME LoopInv, Poll
    PROVE  /\ now' \in Nat /\ now < now' /\ now' <= now + MaxCall
           /\ pc' \in {"returned", "failed", AfterPoll}
           /\ pc' \notin {"returned", "failed"} => now' < reached_at + MaxCall
           /\ start_time' = IF pc = "first_poll" THEN now' \div Second ELSE start_time
           /\ polls' = polls + 1
           /\ waiter' = waiter /\ began' = began /\ reached_at' = reached_at
<1>1. now \in Nat /\ reached_at \in Nat
    BY DEF LoopInv, TypeOK
<1>2. PICK end \in (now + 1)..(now + MaxCall) : \E seen \in now..end :
             /\ now' = end
             /\ pc' \in {IF seen >= reached_at THEN "returned" ELSE AfterPoll, "failed"}
             /\ start_time' = IF pc = "first_poll" THEN end \div Second ELSE start_time
    BY DEF Poll
<1> PICK seen \in now..end :
             /\ now' = end
             /\ pc' \in {IF seen >= reached_at THEN "returned" ELSE AfterPoll, "failed"}
             /\ start_time' = IF pc = "first_poll" THEN end \div Second ELSE start_time
    BY <1>2
<1>3. end \in Nat /\ seen \in Nat /\ now < end /\ end <= now + MaxCall /\ now <= seen
    BY <1>1, <1>2, Constants
<1>4. pc' \notin {"returned", "failed"} => seen < reached_at
    BY <1>1, <1>2, <1>3
<1>5. pc' \notin {"returned", "failed"} => end < reached_at + MaxCall
    BY <1>1, <1>3, <1>4, Constants
<1> QED BY <1>1, <1>2, <1>3, <1>5 DEF Poll

LEMMA AfterPollIs ==
    /\ waiter = "domain" => AfterPoll = "check"
    /\ waiter = "port" /\ pc = "poll" => AfterPoll = "check"
    /\ waiter # "domain" /\ ~(waiter = "port" /\ pc = "poll") => AfterPoll = "sleep"
BY DEF AfterPoll

LEMMA LoopInvFirstPoll ==
    ASSUME LoopInv, Poll, pc = "first_poll"
    PROVE  LoopInv'
<1> USE Constants
<1>0. PICK e \in Nat : now' = e
    BY PollStep
<1>1. /\ now \in Nat /\ began \in Nat /\ reached_at \in Nat /\ waiter \in Kinds
      /\ waiter = "port" /\ now = began /\ polls = 0
    BY DEF LoopInv, TypeOK, TimeInv, SeenInv
<1>2. /\ now' = e /\ now < e /\ e <= now + MaxCall
      /\ pc' \in {"returned", "failed", "sleep"}
      /\ pc' = "sleep" => e < reached_at + MaxCall
      /\ polls' = 1 /\ waiter' = waiter /\ began' = began /\ reached_at' = reached_at
    BY <1>0, <1>1, PollStep, AfterPollIs
<1>3. start_time' = e \div Second
    BY <1>0, PollStep
<1>4. PICK S \in Nat, T \in Nat : S = Second * start_time' /\ T = Second * Timeout
    BY <1>3, Truncation
<1>5. start_time' \in Nat /\ S <= e /\ e < S + Second
    BY <1>3, <1>4, Truncation
<1>6. TypeOK'
  <2>1. began' <= now'
    BY <1>1, <1>2
  <2>2. start_time' <= now' \div Second
    BY <1>2, <1>3, <1>5
  <2> QED BY <1>1, <1>2, <1>5, <2>1, <2>2 DEF TypeOK
<1>7. StartInv'
  <2>1. began' < S + Second /\ S <= began' + MaxCall
    BY <1>1, <1>2, <1>5
  <2> QED BY <1>1, <1>2, <1>4, <2>1 DEF StartInv
<1>8. PICK W \in Nat : SleepTime' = W /\ Round' = MaxCall + W + MaxLate
    BY <1>2, SameLengths
<1>9. TimeInv'
  <2>1. Limit' = S + T + Second
    BY <1>4 DEF Limit
  <2> QED BY <1>1, <1>2, <1>5, <1>8, <2>1 DEF TimeInv, Ended
<1>10. SeenInv'
    BY <1>1, <1>2 DEF SeenInv
<1>11. SpacedInv'
  <2>1. polls' * SleepTime' = W
    BY <1>2, <1>8
  <2>2. W <= e - began + W
    BY <1>1, <1>2, <1>8
  <2> QED BY <1>1, <1>2, <1>8, <2>1, <2>2 DEF SpacedInv
<1> QED BY <1>6, <1>7, <1>9, <1>10, <1>11 DEF LoopInv

LEMMA LoopInvPoll ==
    ASSUME LoopInv, Poll, pc = "poll"
    PROVE  LoopInv'
<1> USE Constants
<1>0. PICK e \in Nat : now' = e
    BY PollStep
<1>1. /\ now \in Nat /\ began \in Nat /\ reached_at \in Nat /\ polls \in Nat /\ start_time \in Nat
      /\ waiter \in Kinds /\ began <= now /\ start_time <= now \div Second
    BY DEF LoopInv, TypeOK
<1>2. /\ now' = e /\ now < e /\ e <= now + MaxCall /\ start_time' = start_time
      /\ polls' = polls + 1 /\ waiter' = waiter /\ began' = began /\ reached_at' = reached_at
    BY <1>0, PollStep
<1>3. /\ pc' \in {"returned", "failed", "check", "sleep"}
      /\ pc' = "check" => waiter \in {"domain", "port"}
      /\ pc' = "sleep" => waiter \notin {"domain", "port"}
      /\ pc' \in {"check", "sleep"} => e < reached_at + MaxCall
    BY <1>0, PollStep, AfterPollIs
<1>4. TypeOK'
  <2>1. start_time' <= e \div Second
    BY <1>1, <1>2, ClockGoesOn
  <2>2. began' <= now'
    BY <1>1, <1>2
  <2> QED BY <1>1, <1>2, <1>3, <2>1, <2>2 DEF TypeOK
<1>5. StartInv'
    BY <1>2, <1>3 DEF LoopInv, StartInv
<1>6. PICK W \in Nat : /\ SleepTime = W /\ SleepTime' = W
                       /\ Round = MaxCall + W + MaxLate /\ Round' = MaxCall + W + MaxLate
    BY <1>2, SameLengths
<1>7. TimeInv'
  <2>1. PICK L \in Nat : Limit = L /\ Limit' = L
    BY <1>1, <1>2 DEF Limit
  <2>2. IF waiter = "port" THEN now < L + W + MaxLate ELSE now < L
    BY <1>6, <2>1 DEF LoopInv, TimeInv
  <2>3. /\ e < L + (MaxCall + W + MaxLate)
        /\ waiter # "port" => e < L + MaxCall
    BY <1>1, <1>2, <1>6, <2>1, <2>2
  <2> QED BY <1>2, <1>3, <1>6, <2>1, <2>3 DEF TimeInv, Ended
<1>8. SeenInv'
  <2>1. polls' # 0
    BY <1>1, <1>2
  <2>2. e < reached_at + MaxCall => e < reached_at + (MaxCall + W + MaxLate)
    BY <1>1, <1>2, <1>6
  <2> QED BY <1>2, <1>3, <1>6, <2>1, <2>2 DEF SeenInv
<1>9. SpacedInv'
  <2>1. PICK P \in Nat : polls * W = P /\ (polls + 1) * W = P + W
    BY <1>1, <1>6, OneMorePoll
  <2>2. waiter # "domain" => P <= now - began
    BY <1>6, <2>1 DEF LoopInv, SpacedInv
  <2>3. waiter # "domain" => P + W <= e - began + W
    BY <1>1, <1>2, <1>6, <2>1, <2>2
  <2>4. polls' * SleepTime' = P + W
    BY <1>2, <1>6, <2>1
  <2> QED BY <1>2, <1>3, <1>6, <2>3, <2>4 DEF SpacedInv
<1> QED BY <1>4, <1>5, <1>7, <1>8, <1>9 DEF LoopInv

LEMMA LoopInvAlways == Spec => []LoopInv
<1>1. LoopInv /\ [Next]_vars => LoopInv'
  <2> SUFFICES ASSUME LoopInv, [Next]_vars PROVE LoopInv'
    OBVIOUS
  <2>1. CASE Enter
    BY <2>1, LoopInvEnter
  <2>2. CASE Poll
    BY <2>2, LoopInvFirstPoll, LoopInvPoll DEF Poll
  <2>3. CASE Sleep
    BY <2>3, LoopInvSleep
  <2>4. CASE Check
    BY <2>4, LoopInvCheck
  <2>5. CASE UNCHANGED vars
    BY <2>5 DEF vars, LoopInv, TypeOK, StartInv, TimeInv, SeenInv, SpacedInv,
                Limit, Round, SleepTime, Expired, Elapsed
  <2> QED BY <2>1, <2>2, <2>3, <2>4, <2>5 DEF Next
<1> QED BY <1>1, LoopInvInit, PTL DEF Spec

-----------------------------------------------------------------------------
(* The theorems.                                                           *)

(* The clock, the saved second and the counters stay what the loops take   *)
(* them for.                                                               *)
THEOREM TypeCorrect == Spec => []TypeOK
<1>1. LoopInv => TypeOK
    BY DEF LoopInv
<1> QED BY <1>1, LoopInvAlways, PTL

(* Whatever build_timeout, the intervals and the calls are, no loop of     *)
(* waiters.py, base.py or test_sriov.py gives up earlier than the          *)
(* truncation to whole seconds explains.                                   *)
THEOREM GivesNobodyUpEarly == Spec => []NotTooEarly
<1>1. LoopInv => NotTooEarly
  <2> SUFFICES ASSUME LoopInv, pc = "timeout"
               PROVE  now - began > (IF waiter \in HeadChecked THEN Timeout ELSE Timeout - 1) * Second
    BY DEF NotTooEarly
  <2> QED BY GivesUpLate DEF LoopInv, SeenInv
<1> QED BY <1>1, LoopInvAlways, PTL

(* No loop times out on something that was there a round and a second      *)
(* before build_timeout was over, though one gives up without a last poll. *)
THEOREM SeesWhatIsThere == Spec => []SeenInTime
<1>1. LoopInv => SeenInTime
  <2> SUFFICES ASSUME LoopInv, pc = "timeout"
               PROVE  reached_at + Round + Second > began + Timeout * Second
    BY DEF SeenInTime
  <2>1. now \in Nat /\ began \in Nat /\ reached_at \in Nat
    BY DEF LoopInv, TypeOK
  <2>2. now < reached_at + Round
    BY DEF LoopInv, SeenInv
  <2>3. now - began > (IF waiter \in HeadChecked THEN Timeout ELSE Timeout - 1) * Second
    BY GivesUpLate DEF LoopInv, SeenInv
  <2>4. PICK T \in Nat : T = Timeout * Second /\ (Timeout - 1) * Second = T - Second
    BY Constants
  <2>5. now - began > T - Second
    BY <2>1, <2>3, <2>4, Constants
  <2>6. Round \in Nat
    BY SleepTimeType, Constants DEF Round
  <2> QED BY <2>1, <2>2, <2>4, <2>5, <2>6, Constants
<1> QED BY <1>1, LoopInvAlways, PTL

(* Every wait is over a round, a second and a call after build_timeout.    *)
THEOREM EndsInTime == Spec => []NotTooLate
<1>1. LoopInv => NotTooLate
  <2> SUFFICES ASSUME LoopInv
               PROVE  now <= began + (Timeout + 1) * Second + Round + MaxCall
    BY DEF NotTooLate
  <2> USE Constants
  <2>1. now \in Nat /\ began \in Nat /\ start_time \in Nat
    BY DEF LoopInv, TypeOK
  <2>2. PICK S \in Nat, T \in Nat : /\ S = Second * start_time /\ T = Second * Timeout
                                   /\ (Timeout + 1) * Second = T + Second
    BY <2>1
  <2>3. SleepTime \in Nat /\ Round = MaxCall + SleepTime + MaxLate
    BY SleepTimeType DEF Round
  <2>4. CASE pc \in {"enter", "first_poll"}
    <3>1. now = began
        BY <2>4 DEF LoopInv, TimeInv
    <3> QED BY <2>1, <2>2, <2>3, <3>1
  <2>5. CASE pc \notin {"enter", "first_poll"}
    <3>1. S <= began + MaxCall
        BY <2>2, <2>5 DEF LoopInv, StartInv
    <3>2. Limit = S + T + Second
        BY <2>2 DEF Limit
    <3>3. pc \in {"poll", "sleep", "check"} \cup Ended
        BY <2>5 DEF LoopInv, TypeOK, Ended
    <3>4. \/ now < Limit \/ now < Limit + MaxCall
          \/ now < Limit + SleepTime + MaxLate \/ now < Limit + Round
        BY <3>3 DEF LoopInv, TimeInv
    <3> QED BY <2>1, <2>2, <2>3, <3>1, <3>2, <3>4
  <2> QED BY <2>4, <2>5
<1> QED BY <1>1, LoopInvAlways, PTL

(* The loops that sleep poll at most once per interval, however quick the  *)
(* answers are.                                                            *)
THEOREM DoesNotFlood == Spec => []PollsAreSpaced
<1>1. LoopInv => PollsAreSpaced
    BY DEF LoopInv, SpacedInv, PollsAreSpaced
<1> QED BY <1>1, LoopInvAlways, PTL
=============================================================================
