---------------------------- MODULE Composer_proofs ----------------------------
(***************************************************************************)
(* Proofs about ModificationNotifier and Composer for any threads, values, *)
(* delays and failures of listeners.                                       *)
(***************************************************************************)
EXTENDS Composer, TLAPS

(* The steps callers are at. Only the UI thread reports changes; a step to *)
(* return to is remembered in a call of the notifier only. The content a   *)
(* thread is about to set is a value.                                      *)
Flow ==
  /\ pc \in [Callers -> {"idle", "accept", "replace", "notify", "assign", "page"}]
  /\ next \in [Callers -> {"idle", "notify", "assign"}]
  /\ \A t \in Callers :
       /\ pc[t] \in {"accept", "replace"} => t = UI
       /\ pc[t] \notin {"replace", "notify"} => next[t] = "idle"
       /\ pc[t] \in {"assign", "page"} \/ next[t] = "assign" => setting[t] \in Values

(* What the composer holds of its page; there is nothing to look at before *)
(* there is a content.                                                     *)
ComposerTypeOK ==
  /\ page \in Values \cup {NoValue} /\ notices \subseteq Notices
  /\ oldHtml \in Values \cup {NoValue} /\ content \in Values \cup {NoValue}
  /\ setting \in [Callers -> Values \cup {NoValue}]
  /\ notices # {} => page \in Values

(* The timer stops when the disposal is over, after which nothing is       *)
(* reported, or dies of a listener that throws.                            *)
Ending ==
  /\ timer = "cancelled" => disposal = "done"
  /\ timer = "dead" => failing
  /\ disposal = "done" => pc[UI] \in {"idle", "notify"} /\ next[UI] = "idle"

(* The latest change that modified has finished with.                      *)
Handled == IF pc[UI] = "replace" THEN count - 1 ELSE count

(* Only the latest change that was handled has a task, and only a task     *)
(* waits in the timer; what anyone is telling is no later.                 *)
Tasks ==
  /\ pc[UI] = "replace" => count # 0
  /\ newest <= Handled /\ firing[TimerThread] <= Handled
  /\ task \in {0, Handled}
  /\ queue \subseteq {task} \ {firing[TimerThread]}
  /\ \A t \in Callers : firing[t] # 0 =>
       \/ pc[t] = "notify" /\ firing[t] = task /\ queue = {}
       \/ t = UI /\ pc[UI] = "replace" /\ firing[t] = count /\ ~delayed
  /\ ~delayed => task = 0 /\ firing[TimerThread] = 0

(* A change that still has a task, or that the timer is still to tell or   *)
(* telling, has been told once at most, and never if both hold.            *)
Tellings ==
  \A i \in Changes :
    /\ i > Handled => times[i] = 0
    /\ task = i \/ i \in queue \/ firing[TimerThread] = i => times[i] <= 1
    /\ task = i /\ (i \in queue \/ firing[TimerThread] = i) => times[i] = 0

IInv ==
  /\ NotifierTypeOK /\ Flow /\ ComposerTypeOK /\ Ending
  /\ Tasks /\ Tellings /\ AtMostTwice /\ LatestIsOwed

LEMMA ThreadsAreDistinct ==
  /\ UI \in Callers /\ TimerThread \notin Callers /\ NoThread \notin Callers
  /\ Threads = Callers \cup {TimerThread} /\ Jobs \subseteq Callers
BY ThreadsDiffer DEF Callers, Threads

(* What the notifier's own steps do to the composer.                       *)
PageRests == UNCHANGED <<page, notices, oldHtml, setting>> /\ content' \in {content, NoValue}

LEMMA PageRestsKeeps == ComposerTypeOK /\ PageRests => ComposerTypeOK'
BY DEF ComposerTypeOK, PageRests

(* A step that tells nothing, schedules nothing and leaves the call of     *)
(* modified the UI thread may be in.                                       *)
LEMMA QuietKeeps ==
  ASSUME IInv,
         UNCHANGED <<choiceVars, changeVars, timerVars, lock, firing, toldVars>>,
         disposal' \in {"no", "posted", "done"},
         pc[UI] = "replace" <=> pc'[UI] = "replace",
         \A t \in Callers : firing[t] # 0 => pc'[t] = pc[t]
  PROVE  NotifierTypeOK' /\ Tasks' /\ Tellings' /\ AtMostTwice' /\ LatestIsOwed'
<1>1. UNCHANGED <<delayed, failing, oldValue, count, value, task, queue, timer, lock, firing, times, newest>>
  BY DEF choiceVars, changeVars, timerVars, toldVars
<1>2. Handled' = Handled
  BY <1>1 DEF Handled
<1>3. NotifierTypeOK'
  BY <1>1 DEF IInv, NotifierTypeOK
<1>4. Tasks'
  BY <1>1, <1>2 DEF IInv, Tasks
<1>5. Tellings' /\ AtMostTwice'
  BY <1>1, <1>2 DEF IInv, Tellings, AtMostTwice
<1>6. LatestIsOwed'
  BY <1>1 DEF IInv, LatestIsOwed
<1>. QED BY <1>3, <1>4, <1>5, <1>6

-----------------------------------------------------------------------------
(* The steps of the notifier.                                               *)

LEMMA ReplaceDelayedKeeps ==
  ASSUME IInv, ReplaceDelayed, PageRests
  PROVE  IInv'
<1>1. /\ pc[UI] = "replace" /\ count \in 1 .. MaxChanges /\ count \in Nat
      /\ lock = NoThread /\ delayed
  BY DEF ReplaceDelayed, IInv, Tasks, NotifierTypeOK
<1>2. Handled = count - 1 /\ (pc'[UI] # "replace" => Handled' = count')
  BY <1>1 DEF Handled
<1>3. /\ queue' \subseteq {count} /\ task' = count
      /\ UNCHANGED <<delayed, failing, oldValue, count, value, timer, lock, firing, disposal, times, newest>>
  BY DEF IInv, Tasks, ReplaceDelayed, choiceVars, changeVars, toldVars
<1>4. Flow' /\ pc'[UI] # "replace"
  BY ThreadsAreDistinct DEF IInv, Flow, ReplaceDelayed, Return, PageRests
<1>5. ComposerTypeOK'
  BY PageRestsKeeps DEF IInv
<1>6. NotifierTypeOK'
  BY <1>1, <1>3 DEF IInv, NotifierTypeOK
<1>7. Ending'
  BY <1>1, <1>3, ThreadsAreDistinct DEF IInv, Ending
<1>8. Tasks'
  <2>1. \A t \in Callers : firing[t] = 0
    BY <1>1, ThreadsAreDistinct DEF IInv, NotifierTypeOK
  <2>2. firing[TimerThread] <= count - 1 /\ firing[TimerThread] \in Nat
    BY <1>2, ThreadsAreDistinct DEF IInv, Tasks, NotifierTypeOK
  <2>. QED BY <1>1, <1>2, <1>3, <1>4, <2>1, <2>2 DEF IInv, Tasks, NotifierTypeOK
<1>9. Tellings' /\ AtMostTwice'
  BY <1>1, <1>2, <1>3, <1>4 DEF IInv, Tellings, AtMostTwice, Tasks, NotifierTypeOK, Changes
<1>10. LatestIsOwed'
  <2>1. ~failing => timer = "alive"
    BY <1>1 DEF IInv, Ending, NotifierTypeOK
  <2>2. timer = "alive" => count \in queue'
    BY DEF ReplaceDelayed
  <2>. QED BY <1>3, <2>1, <2>2 DEF LatestIsOwed
<1>. QED BY <1>4, <1>5, <1>6, <1>7, <1>8, <1>9, <1>10 DEF IInv

LEMMA ReplaceAtOnceKeeps ==
  ASSUME IInv, ReplaceAtOnce, PageRests
  PROVE  IInv'
<1>1. /\ pc[UI] = "replace" /\ count \in 1 .. MaxChanges /\ count \in Nat
      /\ lock = NoThread /\ ~delayed /\ task = 0 /\ queue = {} /\ firing[TimerThread] = 0
  BY DEF ReplaceAtOnce, IInv, Tasks, NotifierTypeOK
<1>2. Handled = count - 1 /\ Handled' = Handled
  BY <1>1 DEF Handled, ReplaceAtOnce, changeVars, threadVars
<1>3. /\ queue' = {} /\ task' = 0 /\ lock' = UI /\ firing' = [firing EXCEPT ![UI] = count]
      /\ UNCHANGED <<delayed, failing, oldValue, count, value, timer, pc, next, disposal, times, newest>>
  BY <1>1 DEF ReplaceAtOnce, choiceVars, changeVars, threadVars, toldVars
<1>4. firing'[UI] = count /\ \A t \in Threads \ {UI} : firing'[t] = firing[t]
  BY <1>3, ThreadsAreDistinct DEF IInv, NotifierTypeOK
<1>5. \A t \in Callers : firing[t] = 0
  BY <1>1, ThreadsAreDistinct DEF IInv, NotifierTypeOK
<1>6. NotifierTypeOK'
  <2>1. firing' \in [Threads -> 0 .. MaxChanges]
    BY <1>1, <1>3, ThreadsAreDistinct DEF IInv, NotifierTypeOK
  <2>2. \A t \in Callers : firing'[t] # 0 <=> lock' = t
    BY <1>1, <1>3, <1>4, <1>5, ThreadsAreDistinct
  <2>. QED BY <1>1, <1>3, <2>1, <2>2, ThreadsAreDistinct DEF IInv, NotifierTypeOK
<1>7. Flow' /\ Ending' /\ ComposerTypeOK'
  BY <1>3, PageRestsKeeps DEF IInv, Flow, Ending, PageRests
<1>8. Tasks'
  BY <1>1, <1>2, <1>3, <1>4, <1>5, ThreadsAreDistinct DEF IInv, Tasks
<1>9. Tellings' /\ AtMostTwice'
  BY <1>1, <1>2, <1>3, <1>4, ThreadsAreDistinct DEF IInv, Tellings, AtMostTwice
<1>10. LatestIsOwed'
  BY <1>1, <1>3 DEF LatestIsOwed
<1>. QED BY <1>6, <1>7, <1>8, <1>9, <1>10 DEF IInv

LEMMA NotifyNowKeeps ==
  ASSUME IInv, NEW t \in Callers, NotifyNow(t), PageRests
  PROVE  IInv'
<1>1. /\ pc[t] = "notify" /\ lock = NoThread
      /\ UNCHANGED <<delayed, failing, oldValue, count, value, task, timer, disposal, times, newest>>
  BY DEF NotifyNow, choiceVars, changeVars, toldVars
<1>2. \A u \in Callers : firing[u] = 0
  BY <1>1, ThreadsAreDistinct DEF IInv, NotifierTypeOK
<1>3. ComposerTypeOK'
  BY PageRestsKeeps DEF IInv
<1>4. CASE task = 0
  <2>1. Return(t) /\ UNCHANGED <<queue, lock, firing>>
    BY <1>4 DEF NotifyNow
  <2>2. Flow' /\ Ending' /\ (pc[UI] = "replace" <=> pc'[UI] = "replace")
    BY <1>1, <2>1, ThreadsAreDistinct DEF IInv, Flow, Ending, Return, PageRests
  <2>. QED BY <1>1, <1>2, <1>3, <2>1, <2>2, QuietKeeps
         DEF IInv, choiceVars, changeVars, timerVars, toldVars, NotifierTypeOK
<1>5. CASE task # 0
  <2>1. /\ queue' = queue \ {task} /\ lock' = t /\ firing' = [firing EXCEPT ![t] = task]
        /\ UNCHANGED <<pc, next>>
    BY <1>5 DEF NotifyNow, threadVars
  <2>2. firing'[t] = task /\ \A u \in Threads \ {t} : firing'[u] = firing[u]
    BY <2>1, ThreadsAreDistinct DEF IInv, NotifierTypeOK
  <2>3. queue' = {} /\ delayed /\ Handled' = Handled
    BY <1>1, <1>5, <2>1 DEF IInv, Tasks, Handled
  <2>4. NotifierTypeOK'
    <3>1. firing' \in [Threads -> 0 .. MaxChanges]
      BY <2>1, BoundIsNat, ThreadsAreDistinct DEF IInv, NotifierTypeOK
    <3>2. \A u \in Callers : firing'[u] # 0 <=> lock' = u
      BY <1>2, <1>5, <2>1, <2>2, ThreadsAreDistinct
    <3>. QED BY <1>1, <2>1, <2>3, <3>1, <3>2, ThreadsAreDistinct DEF IInv, NotifierTypeOK
  <2>5. Flow' /\ Ending'
    BY <1>1, <2>1 DEF IInv, Flow, Ending, PageRests
  <2>6. Tasks'
    BY <1>1, <1>2, <2>1, <2>2, <2>3, ThreadsAreDistinct DEF IInv, Tasks
  <2>7. Tellings' /\ AtMostTwice'
    BY <1>1, <2>1, <2>2, <2>3, ThreadsAreDistinct DEF IInv, Tellings, AtMostTwice
  <2>8. LatestIsOwed'
    BY <1>1, <1>2, <2>1, <2>2, ThreadsAreDistinct DEF IInv, LatestIsOwed, NotifierTypeOK
  <2>. QED BY <1>3, <2>4, <2>5, <2>6, <2>7, <2>8 DEF IInv
<1>. QED BY <1>4, <1>5

LEMMA DeliverKeeps ==
  ASSUME IInv, NEW t \in Callers, Deliver(t),
         UNCHANGED <<page, notices, oldHtml, setting, content>>
  PROVE  IInv'
<1>1. /\ firing[t] # 0 /\ lock = t /\ Return(t) /\ lock' = NoThread
      /\ task' = (IF pc[t] = "notify" THEN 0 ELSE task)
      /\ firing' = [firing EXCEPT ![t] = 0] /\ Told(firing[t])
      /\ UNCHANGED <<delayed, failing, oldValue, count, value, queue, timer, disposal>>
  BY DEF Deliver, IInv, NotifierTypeOK, choiceVars, changeVars
<1>2. /\ firing'[t] = 0 /\ \A u \in Threads \ {t} : firing'[u] = firing[u]
      /\ \A u \in Callers : firing'[u] = 0
  BY <1>1, ThreadsAreDistinct DEF IInv, NotifierTypeOK
<1>3. /\ firing[t] \in 1 .. count /\ count \in Nat /\ count <= MaxChanges
      /\ firing[t] \in Changes /\ newest \in Nat /\ newest <= firing[t]
      /\ firing[t] <= count
  BY <1>1, BoundIsNat, ThreadsAreDistinct DEF IInv, Tasks, NotifierTypeOK, Changes, Handled
<1>4. newest' = firing[t]
  BY <1>1, <1>3 DEF Told
<1>5. times' = [times EXCEPT ![firing[t]] = @ + 1]
  BY <1>1 DEF Told
<1>6. /\ times'[firing[t]] = times[firing[t]] + 1 /\ times' \in [Changes -> Nat]
      /\ \A i \in Changes \ {firing[t]} : times'[i] = times[i]
  BY <1>3, <1>5 DEF IInv, NotifierTypeOK
<1>7. ComposerTypeOK'
  BY PageRestsKeeps DEF IInv, PageRests
<1>8. Flow' /\ (pc[t] = "notify" => (pc[UI] = "replace" <=> pc'[UI] = "replace"))
           /\ (t = UI /\ pc[t] = "replace" => pc'[UI] # "replace")
  BY <1>1, ThreadsAreDistinct DEF IInv, Flow, Return
<1>9. NotifierTypeOK'
  <2>1. firing' \in [Threads -> 0 .. MaxChanges]
    BY <1>1, BoundIsNat, ThreadsAreDistinct DEF IInv, NotifierTypeOK
  <2>2. \A u \in Callers : firing'[u] # 0 <=> lock' = u
    BY <1>1, <1>2, ThreadsAreDistinct
  <2>3. newest' \in 0 .. count /\ task' \in 0 .. count
    BY <1>1, <1>3, <1>4 DEF IInv, NotifierTypeOK
  <2>. QED BY <1>1, <1>6, <2>1, <2>2, <2>3, ThreadsAreDistinct DEF IInv, NotifierTypeOK
<1>10. Ending'
  BY <1>1, <1>8, ThreadsAreDistinct DEF IInv, Ending, Flow, Return
<1>11. CASE pc[t] = "notify"
  <2>1. /\ firing[t] = task /\ task' = 0 /\ task = Handled /\ queue = {}
        /\ Handled' = Handled /\ delayed
    BY <1>1, <1>8, <1>11 DEF IInv, Tasks, Handled
  <2>2. Tasks'
    <3>1. firing'[TimerThread] = firing[TimerThread] /\ firing[TimerThread] <= Handled
          /\ (pc[UI] = "replace" => count # 0) /\ TimerThread \in Threads
      BY <1>2, ThreadsAreDistinct DEF IInv, Tasks
    <3>2. newest' <= Handled'
      BY <1>3, <1>4, <2>1
    <3>3. \A u \in Callers : firing'[u] = 0
      BY <1>2
    <3>4. queue' = {} /\ task' = 0 /\ delayed'
      BY <1>1, <2>1
    <3>. QED BY <1>1, <1>8, <1>11, <2>1, <3>1, <3>2, <3>3, <3>4 DEF Tasks
  <2>3. Tellings' /\ AtMostTwice'
    <3> SUFFICES ASSUME NEW i \in Changes
                 PROVE  /\ (i > Handled => times[i] = 0)'
                        /\ (task = i \/ i \in queue \/ firing[TimerThread] = i => times[i] <= 1)'
                        /\ (task = i /\ (i \in queue \/ firing[TimerThread] = i) => times[i] = 0)'
                        /\ (times[i] <= 2 /\ (~delayed => times[i] <= 1))'
      BY DEF Tellings, AtMostTwice
    <3>1. /\ i > Handled => times[i] = 0
          /\ task = i \/ i \in queue \/ firing[TimerThread] = i => times[i] <= 1
          /\ task = i /\ (i \in queue \/ firing[TimerThread] = i) => times[i] = 0
          /\ times[i] <= 2 /\ (~delayed => times[i] <= 1) /\ times[i] \in Nat
      BY DEF IInv, Tellings, AtMostTwice, NotifierTypeOK
    <3>2. Handled \in Nat /\ i \in Nat /\ i # 0 /\ firing'[TimerThread] = firing[TimerThread]
      BY <1>2, <1>3, <2>1, ThreadsAreDistinct DEF Changes
    <3>3. CASE i = firing[t]
      BY <1>1, <1>6, <2>1, <3>1, <3>2, <3>3
    <3>4. CASE i # firing[t]
      BY <1>1, <1>6, <2>1, <3>1, <3>2, <3>4
    <3>. QED BY <3>3, <3>4
  <2>4. LatestIsOwed'
    <3>1. pc[UI] # "replace" => count = firing[t]
      BY <2>1 DEF Handled
    <3>. QED BY <1>1, <1>3, <1>6, <1>8, <1>11, <3>1 DEF IInv, NotifierTypeOK, LatestIsOwed
  <2>. QED BY <1>7, <1>8, <1>9, <1>10, <2>2, <2>3, <2>4 DEF IInv
<1>12. CASE pc[t] # "notify"
  <2>1. /\ t = UI /\ pc[UI] = "replace" /\ firing[t] = count /\ ~delayed /\ task = 0 /\ task' = 0
        /\ queue = {} /\ firing[TimerThread] = 0 /\ Handled' = count /\ Handled = count - 1
    BY <1>1, <1>8, <1>12 DEF IInv, Tasks, Handled
  <2>2. Tasks'
    BY <1>1, <1>2, <1>3, <1>4, <2>1, ThreadsAreDistinct DEF Tasks
  <2>3. times[count] = 0 /\ times'[count] = 1
    BY <1>3, <1>6, <2>1 DEF IInv, Tellings
  <2>4. Tellings' /\ AtMostTwice'
    <3> SUFFICES ASSUME NEW i \in Changes
                 PROVE  /\ (i > Handled => times[i] = 0)'
                        /\ times'[i] \in {0, 1}
                        /\ i # task' /\ i \notin queue' /\ firing'[TimerThread] # i
      BY DEF Tellings, AtMostTwice, Changes
    <3>1. i \in Nat /\ i # 0 /\ (i > Handled => times[i] = 0) /\ times[i] <= 1 /\ times[i] \in Nat
      BY <2>1 DEF IInv, Tellings, AtMostTwice, NotifierTypeOK, Changes
    <3>2. firing'[TimerThread] = 0
      BY <1>2, <2>1, ThreadsAreDistinct
    <3>3. (i > Handled)' => i > count
      BY <1>1, <2>1
    <3>4. i = count => times'[i] = 1 /\ i <= count
      BY <1>3, <2>3
    <3>5. i # count => times'[i] = times[i]
      BY <1>6, <2>1
    <3>6. i > count => i > Handled /\ i # count
      BY <1>3, <2>1, <3>1
    <3>. QED BY <1>1, <1>3, <2>1, <3>1, <3>2, <3>3, <3>4, <3>5, <3>6
  <2>5. LatestIsOwed'
    BY <1>1, <2>3 DEF LatestIsOwed
  <2>. QED BY <1>7, <1>8, <1>9, <1>10, <2>2, <2>4, <2>5 DEF IInv
<1>. QED BY <1>11, <1>12

LEMMA DeliverThrowsKeeps ==
  ASSUME IInv, NEW t \in Callers, DeliverThrows(t), PageRests
  PROVE  IInv'
<1>1. /\ firing[t] # 0 /\ lock = t /\ lock' = NoThread /\ failing
      /\ firing' = [firing EXCEPT ![t] = 0]
      /\ pc' = [pc EXCEPT ![t] = "idle"] /\ next' = [next EXCEPT ![t] = "idle"]
      /\ UNCHANGED <<delayed, failing, oldValue, count, value, task, queue, timer, disposal, times, newest>>
  BY DEF DeliverThrows, IInv, NotifierTypeOK, choiceVars, changeVars, timerVars, toldVars
<1>2. /\ firing'[t] = 0 /\ \A u \in Threads \ {t} : firing'[u] = firing[u]
      /\ \A u \in Callers : firing'[u] = 0
      /\ firing'[TimerThread] = firing[TimerThread]
  BY <1>1, ThreadsAreDistinct DEF IInv, NotifierTypeOK
<1>3. ComposerTypeOK'
  BY PageRestsKeeps DEF IInv
<1>4. Flow'
  BY <1>1, ThreadsAreDistinct DEF IInv, Flow, PageRests
<1>5. NotifierTypeOK'
  <2>1. firing' \in [Threads -> 0 .. MaxChanges]
    BY <1>1, BoundIsNat, ThreadsAreDistinct DEF IInv, NotifierTypeOK
  <2>2. \A u \in Callers : firing'[u] # 0 <=> lock' = u
    BY <1>1, <1>2, ThreadsAreDistinct
  <2>. QED BY <1>1, <2>1, <2>2, ThreadsAreDistinct DEF IInv, NotifierTypeOK
<1>6. Ending'
  BY <1>1, ThreadsAreDistinct DEF IInv, Ending, Flow
<1>7. /\ Handled' \in {Handled, Handled + 1} /\ (pc'[UI] = "replace" => pc[UI] = "replace")
      /\ Handled \in Nat /\ count \in Nat
      /\ Handled' # Handled => /\ Handled' = count /\ task = 0 /\ queue = {}
                               /\ firing[TimerThread] = 0
  BY <1>1, ThreadsAreDistinct DEF IInv, Flow, Tasks, Handled, NotifierTypeOK
<1>8. Tasks'
  <2>1. /\ newest \in Nat /\ newest <= Handled
        /\ firing[TimerThread] \in Nat /\ firing[TimerThread] <= Handled
    BY <1>2, ThreadsAreDistinct DEF IInv, Tasks, NotifierTypeOK
  <2>2. /\ newest' <= Handled' /\ firing'[TimerThread] <= Handled' /\ task' \in {0, Handled'}
    BY <1>1, <1>2, <1>7, <2>1 DEF IInv, Tasks
  <2>. QED BY <1>1, <1>2, <1>7, <2>2 DEF IInv, Tasks
<1>9. Tellings' /\ AtMostTwice'
  <2>1. \A i \in Changes : i > Handled' => i > Handled
    BY <1>7 DEF Changes
  <2>. QED BY <1>1, <1>2, <2>1 DEF IInv, Tellings, AtMostTwice
<1>10. LatestIsOwed'
  BY <1>1 DEF LatestIsOwed
<1>. QED BY <1>3, <1>4, <1>5, <1>6, <1>8, <1>9, <1>10 DEF IInv

LEMMA TimerFiresKeeps ==
  ASSUME IInv, TimerFires, PageRests
  PROVE  IInv'
<1>1. /\ timer = "alive" /\ firing[TimerThread] = 0
      /\ UNCHANGED <<delayed, failing, oldValue, count, value, task, timer, lock, pc, next,
                     disposal, times, newest>>
  BY DEF TimerFires, choiceVars, changeVars, threadVars, toldVars
<1>2. /\ queue = {task} /\ task # 0 /\ task = Handled /\ queue' = {} /\ delayed
      /\ firing' = [firing EXCEPT ![TimerThread] = task]
  <2>1. PICK i \in queue : queue' = queue \ {i} /\ firing' = [firing EXCEPT ![TimerThread] = i]
    BY DEF TimerFires
  <2>2. i = task /\ i \in 1 .. count /\ queue \subseteq {task}
    BY DEF IInv, Tasks, NotifierTypeOK
  <2>3. task # 0
    BY <2>2
  <2>4. queue = {task}
    BY <2>1, <2>2
  <2>. QED BY <2>1, <2>2, <2>3, <2>4 DEF IInv, Tasks
<1>3. /\ firing'[TimerThread] = task /\ \A t \in Callers : firing'[t] = firing[t]
      /\ TimerThread \in Threads
  BY <1>2, ThreadsAreDistinct DEF IInv, NotifierTypeOK
<1>4. \A t \in Callers : firing[t] = 0
  BY <1>2 DEF IInv, Tasks
<1>5. ComposerTypeOK' /\ Flow' /\ Ending' /\ Handled' = Handled
  BY <1>1, PageRestsKeeps DEF IInv, Flow, Ending, PageRests, Handled
<1>6. NotifierTypeOK'
  <2>1. firing' \in [Threads -> 0 .. MaxChanges]
    BY <1>2, BoundIsNat, ThreadsAreDistinct DEF IInv, NotifierTypeOK
  <2>. QED BY <1>1, <1>2, <1>3, <2>1 DEF IInv, NotifierTypeOK
<1>7. Tasks'
  <2>1. task \in Nat
    BY DEF IInv, NotifierTypeOK
  <2>. QED BY <1>1, <1>2, <1>3, <1>4, <1>5, <2>1 DEF IInv, Tasks
<1>8. Tellings' /\ AtMostTwice'
  BY <1>1, <1>2, <1>3, <1>5 DEF IInv, Tellings, AtMostTwice
<1>9. LatestIsOwed'
  BY <1>1, <1>2, <1>3, <1>4 DEF IInv, LatestIsOwed
<1>. QED BY <1>5, <1>6, <1>7, <1>8, <1>9 DEF IInv

LEMMA TimerDeliversKeeps ==
  ASSUME IInv, TimerDelivers, UNCHANGED <<page, notices, oldHtml, setting, content>>
  PROVE  IInv'
<1> DEFINE j == firing[TimerThread]
<1>1. /\ j # 0 /\ firing' = [firing EXCEPT ![TimerThread] = 0] /\ Told(j)
      /\ UNCHANGED <<delayed, failing, oldValue, count, value, task, queue, timer, lock, pc, next, disposal>>
  BY DEF TimerDelivers, choiceVars, changeVars, timerVars, threadVars
<1>2. /\ firing'[TimerThread] = 0 /\ \A t \in Callers : firing'[t] = firing[t]
      /\ TimerThread \in Threads
  BY <1>1, ThreadsAreDistinct DEF IInv, NotifierTypeOK
<1>3. /\ j \in Changes /\ j \in Nat /\ j <= Handled /\ delayed /\ j \notin queue
      /\ j <= count /\ newest <= Handled /\ newest \in 0 .. count /\ count \in Nat
  BY <1>1, <1>2, BoundIsNat DEF IInv, Tasks, NotifierTypeOK, Changes, Handled
<1>4. newest' \in {newest, j}
  BY <1>1 DEF Told
<1>5. /\ times'[j] = times[j] + 1 /\ times' \in [Changes -> Nat]
      /\ \A i \in Changes \ {j} : times'[i] = times[i]
  BY <1>1, <1>3 DEF IInv, NotifierTypeOK, Told
<1>6. ComposerTypeOK' /\ Flow' /\ Ending' /\ Handled' = Handled
  BY <1>1, PageRestsKeeps DEF IInv, Flow, Ending, PageRests, Handled
<1>7. NotifierTypeOK'
  <2>1. firing' \in [Threads -> 0 .. MaxChanges]
    BY <1>1, BoundIsNat, ThreadsAreDistinct DEF IInv, NotifierTypeOK
  <2>2. newest' \in 0 .. count
    BY <1>3, <1>4
  <2>. QED BY <1>1, <1>2, <1>5, <2>1, <2>2 DEF IInv, NotifierTypeOK
<1>8. Tasks'
  <2>1. newest' <= Handled' /\ firing'[TimerThread] <= Handled'
    <3>1. Handled \in Nat
      BY <1>3 DEF IInv, Tasks, Handled
    <3>. QED BY <1>2, <1>3, <1>4, <1>6, <3>1
  <2>2. \A t \in Callers : firing'[t] = firing[t] /\ pc'[t] = pc[t]
    BY <1>1, <1>2
  <2>3. /\ pc'[UI] = "replace" => count' # 0
        /\ task' \in {0, Handled'} /\ queue' \subseteq {task'}
        /\ ~delayed' => task' = 0 /\ firing'[TimerThread] = 0
        /\ firing'[TimerThread] \notin queue'
    BY <1>1, <1>2, <1>3, <1>6 DEF IInv, Tasks, NotifierTypeOK
  <2>. QED BY <1>1, <2>1, <2>2, <2>3 DEF IInv, Tasks
<1>9. Tellings' /\ AtMostTwice'
  <2> SUFFICES ASSUME NEW i \in Changes
               PROVE  /\ (i > Handled => times[i] = 0)'
                      /\ (task = i \/ i \in queue \/ firing[TimerThread] = i => times[i] <= 1)'
                      /\ (task = i /\ (i \in queue \/ firing[TimerThread] = i) => times[i] = 0)'
                      /\ (times[i] <= 2 /\ (~delayed => times[i] <= 1))'
    BY DEF Tellings, AtMostTwice
  <2>1. /\ i > Handled => times[i] = 0
        /\ task = i \/ i \in queue \/ j = i => times[i] <= 1
        /\ task = i /\ (i \in queue \/ j = i) => times[i] = 0
        /\ times[i] <= 2 /\ times[i] \in Nat /\ i \in Nat /\ i # 0
    BY DEF IInv, Tellings, AtMostTwice, NotifierTypeOK, Changes
  <2>2. Handled \in Nat
    BY <1>3 DEF IInv, Tasks, Handled
  <2>3. CASE i = j
    BY <1>1, <1>2, <1>3, <1>5, <1>6, <2>1, <2>2, <2>3
  <2>4. CASE i # j
    BY <1>1, <1>2, <1>3, <1>5, <1>6, <2>1, <2>2, <2>4
  <2>. QED BY <2>3, <2>4
<1>10. LatestIsOwed'
  <2>1. \A i \in Changes : times[i] > 0 => times'[i] > 0
    BY <1>3, <1>5 DEF IInv, NotifierTypeOK
  <2>2. times'[j] > 0
    BY <1>3, <1>5 DEF IInv, NotifierTypeOK
  <2>3. count # 0 => count \in Changes
    BY <1>3 DEF IInv, NotifierTypeOK, Changes
  <2>. QED BY <1>1, <1>2, <2>1, <2>2, <2>3, ThreadsAreDistinct DEF IInv, LatestIsOwed
<1>. QED BY <1>6, <1>7, <1>8, <1>9, <1>10 DEF IInv

LEMMA TimerThrowsKeeps ==
  ASSUME IInv, TimerThrows, PageRests
  PROVE  IInv'
<1>1. /\ failing /\ firing[TimerThread] # 0 /\ firing' = [firing EXCEPT ![TimerThread] = 0]
      /\ timer' = (IF timer = "cancelled" THEN timer ELSE "dead") /\ queue' = {}
      /\ UNCHANGED <<delayed, failing, oldValue, count, value, task, lock, pc, next, disposal, times, newest>>
  BY DEF TimerThrows, choiceVars, changeVars, threadVars, toldVars
<1>2. /\ firing'[TimerThread] = 0 /\ \A t \in Callers : firing'[t] = firing[t]
      /\ TimerThread \in Threads
  BY <1>1, ThreadsAreDistinct DEF IInv, NotifierTypeOK
<1>3. ComposerTypeOK' /\ Flow' /\ Ending' /\ Handled' = Handled
  BY <1>1, PageRestsKeeps DEF IInv, Flow, Ending, PageRests, Handled
<1>4. NotifierTypeOK'
  <2>1. firing' \in [Threads -> 0 .. MaxChanges]
    BY <1>1, BoundIsNat, ThreadsAreDistinct DEF IInv, NotifierTypeOK
  <2>. QED BY <1>1, <1>2, <2>1 DEF IInv, NotifierTypeOK
<1>5. Tasks'
  <2>1. 0 <= Handled
    BY <1>2 DEF IInv, Tasks, NotifierTypeOK, Handled
  <2>. QED BY <1>1, <1>2, <1>3, <2>1 DEF IInv, Tasks
<1>6. Tellings' /\ AtMostTwice'
  BY <1>1, <1>2, <1>3 DEF IInv, Tellings, AtMostTwice, Changes
<1>7. LatestIsOwed'
  BY <1>1 DEF LatestIsOwed
<1>. QED BY <1>3, <1>4, <1>5, <1>6, <1>7 DEF IInv

LEMMA FinishDisposalKeeps ==
  ASSUME IInv, FinishDisposal, PageRests
  PROVE  IInv'
<1>1. /\ disposal = "posted" /\ pc[UI] = "idle" /\ next[UI] = "idle" /\ lock = NoThread
      /\ disposal' = "done" /\ queue' = {}
      /\ timer' = (IF timer = "alive" THEN "cancelled" ELSE timer)
      /\ UNCHANGED <<delayed, failing, oldValue, count, value, task, next, times, newest>>
  BY ThreadsAreDistinct DEF FinishDisposal, UIIdle, IInv, Flow, choiceVars, changeVars, toldVars
<1>2. \A t \in Callers : firing[t] = 0
  BY <1>1, ThreadsAreDistinct DEF IInv, NotifierTypeOK
<1>3. ComposerTypeOK'
  BY PageRestsKeeps DEF IInv
<1>4. /\ pc'[UI] \in {"idle", "notify"} /\ Handled' = Handled /\ Handled = count
      /\ \A t \in Callers \ {UI} : pc'[t] = pc[t]
  BY <1>1, ThreadsAreDistinct DEF FinishDisposal, IInv, Flow, Handled
<1>5. Flow' /\ Ending'
  BY <1>1, <1>4, ThreadsAreDistinct DEF FinishDisposal, IInv, Flow, Ending, PageRests, NotifierTypeOK
<1>6. CASE task = 0
  <2>1. UNCHANGED <<lock, pc, firing>>
    BY <1>6 DEF FinishDisposal
  <2>2. NotifierTypeOK'
    BY <1>1, <2>1 DEF IInv, NotifierTypeOK
  <2>3. Tasks' /\ Tellings' /\ AtMostTwice'
    BY <1>1, <1>4, <2>1 DEF IInv, Tasks, Tellings, AtMostTwice
  <2>4. LatestIsOwed'
    BY <1>1, <1>4, <1>6, <2>1 DEF IInv, LatestIsOwed
  <2>. QED BY <1>3, <1>5, <2>2, <2>3, <2>4 DEF IInv
<1>7. CASE task # 0
  <2>1. lock' = UI /\ firing' = [firing EXCEPT ![UI] = task] /\ pc'[UI] = "notify"
    BY <1>7, ThreadsAreDistinct DEF FinishDisposal, IInv, Flow
  <2>2. firing'[UI] = task /\ \A t \in Threads \ {UI} : firing'[t] = firing[t]
    BY <2>1, ThreadsAreDistinct DEF IInv, NotifierTypeOK
  <2>3. task = count /\ delayed
    BY <1>4, <1>7 DEF IInv, Tasks
  <2>4. NotifierTypeOK'
    <3>1. firing' \in [Threads -> 0 .. MaxChanges]
      BY <2>1, BoundIsNat, ThreadsAreDistinct DEF IInv, NotifierTypeOK
    <3>2. \A t \in Callers : firing'[t] # 0 <=> lock' = t
      BY <1>2, <1>7, <2>1, <2>2, ThreadsAreDistinct
    <3>. QED BY <1>1, <2>1, <3>1, <3>2, ThreadsAreDistinct DEF IInv, NotifierTypeOK
  <2>5. Tasks'
    BY <1>1, <1>2, <1>4, <2>1, <2>2, <2>3, ThreadsAreDistinct DEF IInv, Tasks
  <2>6. Tellings' /\ AtMostTwice'
    BY <1>1, <1>4, <2>2, ThreadsAreDistinct DEF IInv, Tellings, AtMostTwice
  <2>7. LatestIsOwed'
    BY <1>1, <2>2, <2>3, ThreadsAreDistinct DEF LatestIsOwed
  <2>. QED BY <1>3, <1>5, <2>4, <2>5, <2>6, <2>7 DEF IInv
<1>. QED BY <1>6, <1>7

-----------------------------------------------------------------------------
(* The steps of the composer.                                               *)

LEMMA EditKeeps ==
  ASSUME IInv, NEW v \in Values, Edit(v)
  PROVE  IInv'
<1>1. /\ UNCHANGED <<nvars, oldHtml, setting, content>> /\ page' = v
      /\ notices' = notices \/ \E n \in Notices : notices' = notices \cup {n}
  BY DEF Edit
<1>2. UNCHANGED <<choiceVars, changeVars, timerVars, lock, threadVars, pc, next, firing, disposal, timer, toldVars, failing>>
  BY <1>1 DEF nvars, threadVars, timerVars, choiceVars
<1>3. ComposerTypeOK'
  BY <1>1 DEF IInv, ComposerTypeOK
<1>4. Flow' /\ Ending'
  BY <1>1, <1>2 DEF IInv, Flow, Ending
<1>5. NotifierTypeOK' /\ Tasks' /\ Tellings' /\ AtMostTwice' /\ LatestIsOwed'
  BY <1>2, QuietKeeps DEF IInv, NotifierTypeOK
<1>. QED BY <1>3, <1>4, <1>5 DEF IInv

(* What modifiedCallback does to the flow of the UI thread, for a content  *)
(* that is a value or, at the end, the one of a page without a content.    *)
LEMMA ModifiedCallbackKeeps ==
  ASSUME IInv, UIIdle, disposal = "no", disposal' \in {"no", "posted"},
         NEW html \in Values \cup {NoValue}, NEW immediately \in BOOLEAN,
         html = NoValue => immediately, ModifiedCallback(html, immediately),
         UNCHANGED <<choiceVars, changeVars, timerVars, lock, firing, toldVars, page>>,
         notices' \subseteq notices
  PROVE  IInv'
<1>1. /\ pc[UI] = "idle" /\ firing[UI] = 0 /\ next[UI] = "idle"
      /\ UNCHANGED <<timer, failing>>
  BY ThreadsAreDistinct DEF UIIdle, IInv, Flow, timerVars, choiceVars
<1>2. /\ pc'[UI] # "replace" /\ \A t \in Callers \ {UI} : pc'[t] = pc[t]
  BY <1>1, ThreadsAreDistinct DEF ModifiedCallback, IInv, Flow, threadVars
<1>3. Linked \in [Values -> Values]
  BY LinkedIsFunction
<1>4. ComposerTypeOK'
  BY <1>3, ThreadsAreDistinct DEF IInv, ComposerTypeOK, ModifiedCallback
<1>5. Flow'
  BY <1>1, <1>3, ThreadsAreDistinct DEF IInv, Flow, ComposerTypeOK, ModifiedCallback, threadVars
<1>6. Ending'
  BY <1>1 DEF IInv, Ending
<1>7. NotifierTypeOK' /\ Tasks' /\ Tellings' /\ AtMostTwice' /\ LatestIsOwed'
  BY <1>1, <1>2, QuietKeeps, ThreadsAreDistinct
<1>. QED BY <1>4, <1>5, <1>6, <1>7 DEF IInv

LEMMA NoticeKeeps ==
  ASSUME IInv, NEW n \in Notices, Notice(n)
  PROVE  IInv'
<1>1. page \in Values /\ page # NoValue
  BY ThreadsDiffer DEF Notice, IInv, ComposerTypeOK
<1>. QED BY <1>1, ModifiedCallbackKeeps DEF Notice

LEMMA WidgetDisposeKeeps ==
  ASSUME IInv, WidgetDispose
  PROVE  IInv'
<1>1. page \in Values \cup {NoValue}
  BY DEF IInv, ComposerTypeOK
<1>2. UNCHANGED timerVars /\ disposal = "no" /\ disposal' = "posted"
  BY DEF WidgetDispose, WidgetDisposed, timerVars
<1>. QED BY <1>1, <1>2, ModifiedCallbackKeeps DEF WidgetDispose

LEMMA ReportContentKeeps ==
  ASSUME IInv, ReportContent
  PROVE  IInv'
<1> DEFINE after == IF disposal = "no" THEN "idle" ELSE "notify"
<1>1. /\ pc[UI] = "accept" /\ Accept(content, after) /\ content' = NoValue
      /\ UNCHANGED <<choiceVars, timerVars, lock, firing, disposal, toldVars, page, notices, oldHtml, setting>>
  BY DEF ReportContent, pageVars
<1>2. /\ firing[UI] = 0 /\ next[UI] = "idle" /\ disposal # "done" /\ after \in {"idle", "notify"}
      /\ UNCHANGED <<delayed, failing, task, queue, timer, times, newest>>
  BY <1>1, ThreadsAreDistinct DEF IInv, Flow, Ending, Tasks, choiceVars, timerVars, toldVars
<1>3. ComposerTypeOK'
  BY <1>1 DEF IInv, ComposerTypeOK
<1>4. Ending'
  BY <1>1, <1>2 DEF IInv, Ending
<1> HIDE DEF after
<1>5. CASE content = oldValue
  <2>1. pc' = [pc EXCEPT ![UI] = after] /\ UNCHANGED <<changeVars, next>>
    BY <1>1, <1>5 DEF Accept
  <2>2. Flow' /\ pc'[UI] # "replace" /\ \A t \in Callers \ {UI} : pc'[t] = pc[t]
    BY <1>1, <1>2, <2>1, ThreadsAreDistinct DEF IInv, Flow
  <2>3. NotifierTypeOK' /\ Tasks' /\ Tellings' /\ AtMostTwice' /\ LatestIsOwed'
    BY <1>1, <1>2, <2>1, <2>2, QuietKeeps, ThreadsAreDistinct DEF IInv, NotifierTypeOK
  <2>. QED BY <1>3, <1>4, <2>2, <2>3 DEF IInv
<1>6. CASE content # oldValue
  <2>1. /\ count < MaxChanges /\ oldValue' = content /\ count' = count + 1
        /\ value' = [value EXCEPT ![count + 1] = content]
        /\ pc' = [pc EXCEPT ![UI] = "replace"] /\ next' = [next EXCEPT ![UI] = after]
    BY <1>1, <1>6 DEF Accept
  <2>2. /\ pc'[UI] = "replace" /\ count \in Nat /\ \A t \in Callers \ {UI} : pc'[t] = pc[t]
        /\ Handled = count /\ Handled' = count /\ count' # 0 /\ count' \in 0 .. MaxChanges
    BY <1>1, <2>1, BoundIsNat, ThreadsAreDistinct DEF IInv, Flow, NotifierTypeOK, Handled
  <2>3. Flow'
    BY <1>1, <1>2, <2>1, ThreadsAreDistinct DEF IInv, Flow
  <2>4. NotifierTypeOK'
    <3>1. content \in Values \cup {NoValue}
      BY DEF IInv, ComposerTypeOK
    <3>2. value' \in [Changes -> Values \cup {NoValue}]
      BY <2>1, <3>1 DEF IInv, NotifierTypeOK
    <3>3. task \in 0 .. count' /\ queue \subseteq 1 .. count' /\ newest \in 0 .. count'
      BY <2>1, <2>2 DEF IInv, NotifierTypeOK
    <3>. QED BY <1>1, <1>2, <2>1, <2>2, <3>1, <3>2, <3>3 DEF IInv, NotifierTypeOK
  <2>5. Tasks'
    BY <1>1, <1>2, <2>2, ThreadsAreDistinct DEF IInv, Tasks
  <2>6. Tellings' /\ AtMostTwice'
    BY <1>1, <1>2, <2>2 DEF IInv, Tellings, AtMostTwice
  <2>7. LatestIsOwed'
    BY <2>2 DEF LatestIsOwed
  <2>. QED BY <1>3, <1>4, <2>3, <2>4, <2>5, <2>6, <2>7 DEF IInv
<1>. QED BY <1>5, <1>6

LEMMA SetSourceKeeps ==
  ASSUME IInv, NEW t \in Callers, NEW v \in Sources, SetSource(t, v)
  PROVE  IInv'
<1>1. /\ disposal = "no" /\ pc[t] = "idle" /\ firing[t] = 0 /\ v \in Values
      /\ setting' = [setting EXCEPT ![t] = v] /\ pc' = [pc EXCEPT ![t] = "notify"]
      /\ next' = [next EXCEPT ![t] = "assign"]
      /\ UNCHANGED <<choiceVars, changeVars, timerVars, lock, firing, disposal, toldVars,
                     page, notices, oldHtml, content>>
  BY LinkedIsFunction DEF SetSource, pageVars
<1>2. ComposerTypeOK'
  BY <1>1 DEF IInv, ComposerTypeOK
<1>3. Flow' /\ \A u \in Callers \ {t} : pc'[u] = pc[u] /\ pc'[t] = "notify"
  BY <1>1, ThreadsAreDistinct DEF IInv, Flow, ComposerTypeOK
<1>4. Ending'
  BY <1>1 DEF IInv, Ending, timerVars, choiceVars
<1>5. pc[UI] = "replace" <=> pc'[UI] = "replace"
  BY <1>1, ThreadsAreDistinct DEF IInv, Flow
<1>6. \A u \in Callers : firing[u] # 0 => pc'[u] = pc[u]
  BY <1>1, <1>3
<1>7. NotifierTypeOK' /\ Tasks' /\ Tellings' /\ AtMostTwice' /\ LatestIsOwed'
  BY <1>1, <1>5, <1>6, QuietKeeps
<1>. QED BY <1>2, <1>3, <1>4, <1>7 DEF IInv

LEMMA AssignOldHtmlKeeps ==
  ASSUME IInv, NEW t \in Callers, AssignOldHtml(t)
  PROVE  IInv'
<1>1. /\ pc[t] = "assign" /\ oldHtml' = setting[t] /\ pc' = [pc EXCEPT ![t] = "page"]
      /\ UNCHANGED <<choiceVars, changeVars, timerVars, lock, next, firing, disposal, toldVars,
                     page, notices, setting, content>>
  BY DEF AssignOldHtml, pageVars
<1>2. firing[t] = 0
  BY <1>1 DEF IInv, Tasks
<1>3. ComposerTypeOK'
  BY <1>1 DEF IInv, ComposerTypeOK
<1>4. Flow'
  BY <1>1, ThreadsAreDistinct DEF IInv, Flow
<1>5. /\ \A u \in Callers \ {t} : pc'[u] = pc[u]
      /\ pc[UI] = "replace" <=> pc'[UI] = "replace"
  BY <1>1, ThreadsAreDistinct DEF IInv, Flow
<1>6. Ending'
  BY <1>1, <1>5, ThreadsAreDistinct DEF IInv, Ending, timerVars, choiceVars
<1>7. \A u \in Callers : firing[u] # 0 => pc'[u] = pc[u]
  BY <1>2, <1>5
<1>8. NotifierTypeOK' /\ Tasks' /\ Tellings' /\ AtMostTwice' /\ LatestIsOwed'
  BY <1>1, <1>5, <1>7, QuietKeeps DEF IInv, NotifierTypeOK
<1>. QED BY <1>3, <1>4, <1>6, <1>8 DEF IInv

LEMMA SetPageKeeps ==
  ASSUME IInv, NEW t \in Callers, SetPage(t)
  PROVE  IInv'
<1> DEFINE linking == t = UI /\ content # NoValue
<1>1. /\ pc[t] = "page" /\ pc' = [pc EXCEPT ![t] = IF linking THEN "accept" ELSE "idle"]
      /\ setting' = [setting EXCEPT ![t] = NoValue]
      /\ (page' = setting[t] /\ notices' \subseteq Notices) \/ UNCHANGED <<page, notices>>
      /\ UNCHANGED <<choiceVars, changeVars, timerVars, lock, next, firing, disposal, toldVars,
                     oldHtml, content>>
  BY DEF SetPage, pageVars, IInv, ComposerTypeOK
<1>2. firing[t] = 0 /\ setting[t] \in Values
  BY <1>1 DEF IInv, Tasks, Flow
<1>3. ComposerTypeOK'
  BY <1>1, <1>2 DEF IInv, ComposerTypeOK
<1>4. Flow'
  BY <1>1, ThreadsAreDistinct DEF IInv, Flow, ComposerTypeOK
<1>5. /\ \A u \in Callers \ {t} : pc'[u] = pc[u]
      /\ pc[UI] = "replace" <=> pc'[UI] = "replace"
  BY <1>1, ThreadsAreDistinct DEF IInv, Flow
<1>6. Ending'
  BY <1>1, <1>5, ThreadsAreDistinct DEF IInv, Ending, timerVars, choiceVars
<1>7. \A u \in Callers : firing[u] # 0 => pc'[u] = pc[u]
  BY <1>2, <1>5
<1>8. NotifierTypeOK' /\ Tasks' /\ Tellings' /\ AtMostTwice' /\ LatestIsOwed'
  BY <1>1, <1>5, <1>7, QuietKeeps DEF IInv, NotifierTypeOK
<1>. QED BY <1>3, <1>4, <1>6, <1>8 DEF IInv

-----------------------------------------------------------------------------

LEMMA InitHolds == CInit => IInv
<1> SUFFICES ASSUME CInit PROVE IInv
  OBVIOUS
<1>1. NotifierTypeOK
  BY ThreadsAreDistinct, BoundIsNat, Choices DEF CInit, NInit, NotifierTypeOK
<1>2. Flow /\ ComposerTypeOK /\ Ending
  BY ThreadsAreDistinct DEF CInit, NInit, Flow, ComposerTypeOK, Ending
<1>3. Tasks
  BY ThreadsAreDistinct DEF CInit, NInit, Tasks, Handled
<1>4. Tellings /\ AtMostTwice /\ LatestIsOwed
  BY DEF CInit, NInit, Tellings, AtMostTwice, LatestIsOwed, Changes
<1>. QED BY <1>1, <1>2, <1>3, <1>4 DEF IInv

LEMMA StutterKeeps == IInv /\ UNCHANGED cvars => IInv'
<1> SUFFICES ASSUME IInv, UNCHANGED cvars PROVE IInv'
  OBVIOUS
<1>1. /\ UNCHANGED <<choiceVars, changeVars, timerVars, lock, pc, next, firing, disposal, toldVars>>
      /\ UNCHANGED <<page, notices, oldHtml, setting, content, failing, timer>>
  BY DEF cvars, nvars, composerVars, threadVars, choiceVars, timerVars
<1>2. Flow' /\ Ending' /\ ComposerTypeOK'
  BY <1>1 DEF IInv, Flow, Ending, ComposerTypeOK
<1>3. NotifierTypeOK' /\ Tasks' /\ Tellings' /\ AtMostTwice' /\ LatestIsOwed'
  BY <1>1, QuietKeeps DEF IInv, NotifierTypeOK
<1>. QED BY <1>2, <1>3 DEF IInv

LEMMA StepKeeps == IInv /\ [CNext]_cvars => IInv'
<1> SUFFICES ASSUME IInv, CNext PROVE IInv'
  BY StutterKeeps
<1>1. CASE Notify
  <2>1. PageRests
    BY <1>1, ThreadsDiffer DEF Notify, PageRests, pageVars
  <2>. QED BY <1>1, <2>1, ReplaceDelayedKeeps, ReplaceAtOnceKeeps, NotifyNowKeeps, DeliverThrowsKeeps,
              TimerFiresKeeps, TimerThrowsKeeps, FinishDisposalKeeps DEF Notify, NotifierSteps
<1>2. CASE Tell
  BY <1>2, DeliverKeeps, TimerDeliversKeeps DEF Tell, pageVars
<1>. QED
  BY <1>1, <1>2, EditKeeps, NoticeKeeps, WidgetDisposeKeeps, ReportContentKeeps, SetSourceKeeps,
     AssignOldHtmlKeeps, SetPageKeeps DEF CNext

-----------------------------------------------------------------------------
(* The theorems.                                                            *)

\* Every clause of the inductive invariant holds in every state: the types, the
\* flow of the callers, the ends of the timer, what a task and a telling may be
\* of (modified, notifyNow, the timer, the disposal and setSource together).
THEOREM InvariantHolds == CSpec => []IInv
<1>. QED BY InitHolds, StepKeeps, PTL DEF CSpec

\* The variables of ModificationNotifier have their types, and who tells a
\* change with modified, notifyNow or the posted disposal is in the monitor.
THEOREM TypesHold == CSpec => []NotifierTypeOK
<1>1. IInv => NotifierTypeOK
  BY DEF IInv
<1>. QED BY <1>1, InvariantHolds, PTL

\* No change is told more than twice, and without a delay none is told more
\* than once, though the timer leaves the task it has run in the field.
THEOREM ToldTwiceAtMost == CSpec => []AtMostTwice
<1>1. IInv => AtMostTwice
  BY DEF IInv
<1>. QED BY <1>1, InvariantHolds, PTL

\* No order of modified, notifyNow, the timer's thread, setSource and the
\* disposal loses the latest change, as long as no listener throws.
THEOREM LatestIsNotLost == CSpec => []LatestIsOwed
<1>1. IInv => LatestIsOwed
  BY DEF IInv
<1>. QED BY <1>1, InvariantHolds, PTL

(* What a step of the composer is to the notifier.                         *)
LEMMA StepsOfNotifier ==
  ASSUME IInv, [CNext]_cvars
  PROVE  \/ NotifierSteps \/ (\E t \in Callers : Deliver(t)) \/ TimerDelivers
         \/ UNCHANGED <<firing, times>>
BY DEF CNext, Notify, Tell, Edit, Notice, WidgetDispose, ReportContent, SetSource, AssignOldHtml,
       SetPage, cvars, nvars, toldVars

\* A telling that begins, in any thread, is of the latest change, or of the one
\* before while the UI thread is about to replace its task: modified cancels
\* the task of the change before in the same block that schedules the new one.
THEOREM OnlyLatestBegins == CSpec => SupersededNeverStarts
<1> DEFINE A == \A t \in Threads : firing[t] = 0 /\ firing'[t] # 0 =>
                  firing'[t] = IF pc[UI] = "replace" /\ delayed THEN count - 1 ELSE count
<1>1. IInv /\ [CNext]_cvars => A
  <2> SUFFICES ASSUME IInv, [CNext]_cvars, NEW t \in Threads, firing[t] = 0, firing'[t] # 0
               PROVE  firing'[t] = IF pc[UI] = "replace" /\ delayed THEN count - 1 ELSE count
    OBVIOUS
  <2>1. firing \in [Threads -> 0 .. MaxChanges] /\ (task # 0 => delayed /\ task = Handled)
    BY DEF IInv, NotifierTypeOK, Tasks
  <2>2. CASE ReplaceDelayed \/ UNCHANGED <<firing, times>>
    BY <2>2 DEF ReplaceDelayed
  <2>3. CASE ReplaceAtOnce
    BY <2>1, <2>3, ThreadsAreDistinct DEF ReplaceAtOnce
  <2>4. CASE \E u \in Callers : NotifyNow(u)
    BY <2>1, <2>4, ThreadsAreDistinct DEF NotifyNow, Handled
  <2>5. CASE \E u \in Callers : DeliverThrows(u) \/ Deliver(u)
    BY <2>1, <2>5, ThreadsAreDistinct DEF DeliverThrows, Deliver
  <2>6. CASE TimerThrows \/ TimerDelivers
    BY <2>1, <2>6, ThreadsAreDistinct DEF TimerThrows, TimerDelivers
  <2>7. CASE TimerFires
    <3>1. \A i \in queue : i = task /\ task # 0
      BY DEF IInv, Tasks, NotifierTypeOK
    <3>. QED BY <2>1, <2>7, <3>1, ThreadsAreDistinct DEF TimerFires, Handled
  <2>8. CASE FinishDisposal
    BY <2>1, <2>8, ThreadsAreDistinct DEF FinishDisposal, Handled
  <2>. QED BY <2>2, <2>3, <2>4, <2>5, <2>6, <2>7, <2>8, StepsOfNotifier DEF NotifierSteps
<1>2. A => [A]_nvars
  OBVIOUS
<1>. QED BY <1>1, <1>2, InvariantHolds, PTL DEF CSpec, SupersededNeverStarts

\* A thread in the monitor that has told a change has told none older than one
\* told before: only the timer, which does not enter it, tells out of order.
THEOREM CallersAreInOrder == CSpec => CallersTellInOrder
<1> DEFINE A == \A t \in Callers :
                  firing[t] # 0 /\ times' # times /\ firing'[t] = 0 => newest <= firing[t]
<1>1. IInv => \A t \in Callers : firing[t] # 0 => newest <= firing[t]
  BY DEF IInv, Tasks, NotifierTypeOK, Handled
<1>2. IInv => A
  BY <1>1
<1>3. A => [A]_nvars
  OBVIOUS
<1>. QED BY <1>2, <1>3, InvariantHolds, PTL DEF CSpec, CallersTellInOrder
=============================================================================
