------------------------- MODULE ParallelUpdatesProofs -------------------------
(***************************************************************************)
(* Proofs about ParallelUpdates, for any number of workers, callers, jobs  *)
(* and deltas: the thread that initializes the shared committer has        *)
(* nothing on top of the initialization, and the chunks of an update give  *)
(* what they give alone, however they interleave.                          *)
(***************************************************************************)
EXTENDS ParallelUpdates, SequenceTheorems, TLAPS

-------------------------------------------------------------------------------
(* The three ways in which an action changes the stacks, from S to S2, as  *)
(* EXCEPT says it and frame by frame                                       *)

Stacks == [Thread -> Seq(Frames)]
Lengths(S) == \A u \in Thread : Len(S[u]) \in Nat /\ DOMAIN S[u] = 1 .. Len(S[u])

Moved(S, S2, t, at) ==
  /\ S2 \in Stacks /\ Lengths(S) /\ Lengths(S2)
  /\ \A u \in Thread : DOMAIN S2[u] = DOMAIN S[u] /\ Len(S2[u]) = Len(S[u])
  /\ \A u \in Thread : \A i \in DOMAIN S[u] :
       /\ S2[u][i].job = S[u][i].job
       /\ u # t \/ i # Len(S[u]) => S2[u][i].at = S[u][i].at
  /\ S2[t][Len(S[t])].at = at

Popped(S, S2, t) ==
  /\ S2 \in Stacks /\ Lengths(S) /\ Lengths(S2)
  /\ \A u \in Thread : Len(S2[u]) = IF u = t THEN Len(S[u]) - 1 ELSE Len(S[u])
  /\ \A u \in Thread : \A i \in DOMAIN S2[u] :
       /\ i \in DOMAIN S[u] /\ S2[u][i] = S[u][i]
       /\ u # t \/ i # Len(S[u])

Pushed(S, S2, t, f) ==
  /\ S2 \in Stacks /\ Lengths(S) /\ Lengths(S2)
  /\ \A u \in Thread : Len(S2[u]) = IF u = t THEN Len(S[u]) + 1 ELSE Len(S[u])
  /\ \A u \in Thread : \A i \in DOMAIN S2[u] :
       \/ i \in DOMAIN S[u] /\ S2[u][i] = S[u][i]
       \/ u = t /\ i = Len(S2[u]) /\ S2[u][i] = f

LEMMA LengthsAre == ASSUME NEW S \in Stacks PROVE Lengths(S)
BY DEF Stacks, Lengths

(* Go: the innermost frame of t is at another place. *)
LEMMA GoStacks ==
  ASSUME NEW S \in Stacks, NEW t \in Thread, S[t] # << >>, NEW at \in Places, NEW S2,
         S2 = [S EXCEPT ![t][Len(S[t])].at = at]
  PROVE  Moved(S, S2, t, at)
<1> DEFINE f == [S[t] EXCEPT ![Len(S[t])].at = at]
<1>1. S[t] \in Seq(Frames) /\ Len(S[t]) \in Nat \ {0}
  BY DEF Stacks
<1>2. S[t][Len(S[t])] \in Frames
  BY <1>1
<1>3. [S[t][Len(S[t])] EXCEPT !.at = at] = [job |-> S[t][Len(S[t])].job, at |-> at]
  BY <1>2 DEF Frames
<1>4. [job |-> S[t][Len(S[t])].job, at |-> at] \in Frames
  BY <1>2 DEF Frames
<1>5. f \in Seq(Frames) /\ Len(f) = Len(S[t])
  BY <1>1, <1>3, <1>4
<1>6. \A i \in 1 .. Len(S[t]) :
        f[i] = IF i = Len(S[t]) THEN [job |-> S[t][i].job, at |-> at] ELSE S[t][i]
  BY <1>1, <1>3
<1>7. S2 = [S EXCEPT ![t] = f]
  OBVIOUS
<1>8. S2[t] = f /\ \A u \in Thread \ {t} : S2[u] = S[u]
  BY <1>7 DEF Stacks
<1> HIDE DEF f
<1>9. S2 \in Stacks
  BY <1>5, <1>7 DEF Stacks
<1>10. Lengths(S) /\ Lengths(S2)
  BY <1>9, LengthsAre
<1>11. DOMAIN S2[t] = DOMAIN S[t] /\ Len(S2[t]) = Len(S[t]) /\ DOMAIN S[t] = 1 .. Len(S[t])
  BY <1>5, <1>8, <1>10 DEF Lengths
<1>12. \A i \in DOMAIN S[t] : i # Len(S[t]) => S2[t][i] = S[t][i]
  BY <1>6, <1>8, <1>11
<1>13. S2[t][Len(S[t])] = [job |-> S[t][Len(S[t])].job, at |-> at]
  BY <1>1, <1>6, <1>8, <1>11
<1>14. S2[t][Len(S[t])].job = S[t][Len(S[t])].job /\ S2[t][Len(S[t])].at = at
  BY <1>13
<1>15. \A u \in Thread : DOMAIN S2[u] = DOMAIN S[u] /\ Len(S2[u]) = Len(S[u])
  BY <1>8, <1>11
<1>16. \A u \in Thread : \A i \in DOMAIN S[u] :
         S2[u][i].job = S[u][i].job /\ (u # t \/ i # Len(S[u]) => S2[u][i].at = S[u][i].at)
  BY <1>8, <1>12, <1>14
<1> QED
  BY <1>9, <1>10, <1>14, <1>15, <1>16 DEF Moved

(* Pop: the innermost frame of t is gone. *)
LEMMA PopStacks ==
  ASSUME NEW S \in Stacks, NEW t \in Thread, S[t] # << >>, NEW S2, S2 = [S EXCEPT ![t] = Front(@)]
  PROVE  Popped(S, S2, t)
<1>1. S[t] \in Seq(Frames) /\ Len(S[t]) \in Nat \ {0}
  BY DEF Stacks
<1> DEFINE q == SubSeq(S[t], 1, Len(S[t]) - 1)
           n == Len(S[t])
<1>2. \A i \in 1 .. Len(S[t]) - 1 : S[t][i] \in Frames
  BY <1>1
<1>3. /\ q \in Seq(Frames)
      /\ Len(q) = IF 1 <= n - 1 THEN (n - 1) - 1 + 1 ELSE 0
      /\ \A i \in 1 .. (n - 1) - 1 + 1 : q[i] = S[t][1 + i - 1]
  BY <1>1, <1>2, SubSeqProperties
<1>4. Front(S[t]) = q
  BY DEF Front
<1> HIDE DEF q
<1>5. Front(S[t]) \in Seq(Frames) /\ Len(Front(S[t])) = Len(S[t]) - 1
  BY <1>1, <1>3, <1>4
<1>6. \A i \in 1 .. Len(S[t]) - 1 : Front(S[t])[i] = S[t][i]
  <2> TAKE i \in 1 .. n - 1
  <2>1. i \in 1 .. (n - 1) - 1 + 1 /\ 1 + i - 1 = i
    BY <1>1
  <2> QED
    BY <2>1, <1>3, <1>4
<1>7. S2[t] = Front(S[t]) /\ \A u \in Thread \ {t} : S2[u] = S[u]
  BY DEF Stacks
<1>8. S2 \in Stacks
  BY <1>5 DEF Stacks
<1>9. Lengths(S) /\ Lengths(S2)
  BY <1>8, LengthsAre
<1> QED
  BY <1>5, <1>6, <1>7, <1>8, <1>9 DEF Popped, Lengths

(* Append: t has a frame on top of the others. *)
LEMMA PushStacks ==
  ASSUME NEW S \in Stacks, NEW t \in Thread, NEW f \in Frames, NEW S2,
         S2 = [S EXCEPT ![t] = Append(@, f)]
  PROVE  Pushed(S, S2, t, f)
<1>1. S[t] \in Seq(Frames) /\ Len(S[t]) \in Nat
  BY DEF Stacks
<1>2. S2[t] = Append(S[t], f) /\ \A u \in Thread \ {t} : S2[u] = S[u]
  BY DEF Stacks
<1>3. S2 \in Stacks
  BY DEF Stacks
<1>4. Lengths(S) /\ Lengths(S2)
  BY <1>3, LengthsAre
<1> QED
  BY <1>1, <1>2, <1>3, <1>4 DEF Pushed, Lengths

(* The innermost frame of a thread that is somewhere *)
LEMMA TopIs ==
  ASSUME TypeOK, NEW t \in Thread, NEW at, At(t, at)
  PROVE  /\ stack \in Stacks /\ stack[t] # << >>
         /\ Len(stack[t]) \in Nat \ {0} /\ Len(stack[t]) \in DOMAIN stack[t]
         /\ Top(t) = stack[t][Len(stack[t])] /\ Top(t) \in Frames /\ Top(t).at = at
         /\ Top(t).job \in Jobs
<1>1. stack \in Stacks /\ stack[t] \in Seq(Frames) /\ stack[t] # << >> /\ Top(t).at = at
  BY DEF TypeOK, At, Stacks
<1>2. Top(t) = stack[t][Len(stack[t])]
  BY DEF Top, Last
<1>3. Len(stack[t]) \in Nat \ {0} /\ Len(stack[t]) \in DOMAIN stack[t]
  BY <1>1
<1>4. stack[t][Len(stack[t])] \in Frames
  BY <1>1, <1>3
<1> QED
  BY <1>1, <1>2, <1>3, <1>4 DEF Frames

LEMMA GoMoves ==
  ASSUME TypeOK, NEW t \in Thread, NEW at, At(t, at), NEW to \in Places, Go(t, to)
  PROVE  Moved(stack, stack', t, to)
<1>1. stack \in Stacks /\ stack[t] # << >>
  BY TopIs
<1>2. stack' = [stack EXCEPT ![t][Len(stack[t])].at = to]
  BY DEF Go
<1> QED
  BY <1>1, <1>2, GoStacks

LEMMA PopPops ==
  ASSUME TypeOK, NEW t \in Thread, NEW at, At(t, at), Pop(t)
  PROVE  Popped(stack, stack', t)
<1>1. stack \in Stacks /\ stack[t] # << >>
  BY TopIs
<1>2. stack' = [stack EXCEPT ![t] = Front(@)]
  BY DEF Pop
<1> QED
  BY <1>1, <1>2, PopStacks

(* A step that leaves the deltas, plans and results alone *)
LEMMA ChunksStay ==
  ASSUME UNCHANGED <<deltas, plan, chunked>>
  PROVE  /\ Ranges' = Ranges
         /\ \A k : InChunks(k)' <=> InChunks(k)
         /\ outcome' = outcome /\ AsIfAlone => AsIfAlone'
         /\ Planned(deltas)' = Planned(deltas)
BY DEF Ranges, InChunks, AsIfAlone, ChunkAlone
-------------------------------------------------------------------------------
(* Every step preserves the invariant: first what the three ways to    *)
(* change a stack do to its parts.                                         *)

(* A thread goes on, with nothing else changed that a frame depends on. *)
LEMMA MoveKeeps ==
  ASSUME Inductive, NEW t \in Thread, NEW at, At(t, at), NEW to \in Places, Go(t, to),
         UNCHANGED <<queue, deltas, plan, chunked, outcome>>,
         at # "asleep", to # "asleep", FitsAt(Top(t).job, to), ChunkAt(Top(t).job, to)
  PROVE  stack' \in Stacks /\ JobsFit' /\ OneHolder' /\ Chunked'
<1> USE DEF Inductive
<1>1. Moved(stack, stack', t, to)
  BY GoMoves
<1>2. Len(stack[t]) \in DOMAIN stack[t] /\ Top(t) = stack[t][Len(stack[t])] /\ Top(t).at = at
  BY TopIs
<1>3. JobsFit'
  BY <1>1, <1>2 DEF JobsFit, Moved
<1>4. \A u \in Thread : \A i \in DOMAIN stack'[u] : \A k : Holds(u, i, k)' => Holds(u, i, k)
  BY <1>1, <1>2 DEF Holds, Moved
<1>5. OneHolder'
  BY <1>1, <1>4 DEF OneHolder, Moved
<1>6. Ranges' = Ranges /\ (AsIfAlone => AsIfAlone') /\ \A k : InChunks(k)' <=> InChunks(k)
  BY ChunksStay
<1>7. \A job, a : ChunkAt(job, a)' <=> ChunkAt(job, a)
  BY <1>6 DEF ChunkAt, IsChunk
<1>8. Chunked'
  BY <1>1, <1>2, <1>6, <1>7 DEF Chunked, Moved, IsChunk
<1> QED
  BY <1>1, <1>3, <1>5, <1>8 DEF Moved

(* And so it does with regard to the initialization, in it or outside. *)
LEMMA MoveKeepsInitializer ==
  ASSUME Inductive, NEW t \in Thread, NEW at, At(t, at), NEW to \in Places, Go(t, to),
         UNCHANGED lazy, at \in Initializing <=> to \in Initializing
  PROVE  OneInitializer'
<1> USE DEF Inductive
<1>1. Moved(stack, stack', t, to)
  BY GoMoves
<1>2. Len(stack[t]) \in DOMAIN stack[t] /\ stack[t][Len(stack[t])].at = at /\ Len(stack[t]) # 0
  BY TopIs
<1>3. \A u \in Thread : \A i \in DOMAIN stack'[u] :
        stack'[u][i].at \in Initializing <=> stack[u][i].at \in Initializing
  BY <1>1, <1>2 DEF Moved
<1>4. ASSUME lazy.st = "running"
      PROVE  lazy.by \in Thread /\ stack'[lazy.by] # << >> /\ Top(lazy.by)'.at \in Initializing
  <2>1. lazy.by \in Thread /\ stack[lazy.by] # << >> /\ stack[lazy.by][Len(stack[lazy.by])].at \in Initializing
    BY <1>4 DEF OneInitializer, Top, Last
  <2>2. Len(stack[lazy.by]) # 0 /\ Len(stack[lazy.by]) \in DOMAIN stack[lazy.by]
    BY <2>1, <1>1 DEF TypeOK
  <2>3. Len(stack'[lazy.by]) = Len(stack[lazy.by]) /\ DOMAIN stack'[lazy.by] = DOMAIN stack[lazy.by]
    BY <2>1, <1>1 DEF Moved
  <2>4. stack'[lazy.by] # << >>
    BY <2>2, <2>3
  <2> QED
    BY <2>1, <2>2, <2>3, <2>4, <1>3 DEF Top, Last
<1>5. \A u \in Thread : \A i \in DOMAIN stack'[u] :
        stack'[u][i].at \in Initializing => lazy.st = "running" /\ lazy.by = u /\ i = Len(stack'[u])
  BY <1>1, <1>3 DEF OneInitializer, Moved
<1> QED
  BY <1>4, <1>5 DEF OneInitializer

(* A thread ends what is innermost, outside of the initialization. *)
LEMMA PopKeepsInitializer ==
  ASSUME Inductive, NEW t \in Thread, NEW at, At(t, at), Pop(t), UNCHANGED lazy, at \notin Initializing
  PROVE  OneInitializer'
<1> USE DEF Inductive
<1>1. Popped(stack, stack', t)
  BY PopPops
<1>2. Len(stack[t]) \in DOMAIN stack[t] /\ stack[t][Len(stack[t])].at = at /\ Len(stack[t]) # 0
  BY TopIs
<1>3. ASSUME lazy.st = "running"
      PROVE  lazy.by \in Thread /\ stack'[lazy.by] # << >> /\ Top(lazy.by)'.at \in Initializing
  <2>1. lazy.by \in Thread /\ stack[lazy.by] # << >> /\ stack[lazy.by][Len(stack[lazy.by])].at \in Initializing
    BY <1>3 DEF OneInitializer, Top, Last
  <2>2. Len(stack[lazy.by]) # 0 /\ Len(stack[lazy.by]) \in DOMAIN stack[lazy.by] /\ lazy.by # t
    BY <2>1, <1>2 DEF TypeOK
  <2>3. Len(stack'[lazy.by]) = Len(stack[lazy.by]) /\ DOMAIN stack'[lazy.by] = DOMAIN stack[lazy.by]
    BY <2>1, <2>2, <1>1 DEF Popped, Lengths
  <2>4. stack'[lazy.by] # << >>
    BY <2>2, <2>3
  <2> QED
    BY <2>1, <2>2, <2>3, <2>4, <1>1 DEF Top, Last, Popped
<1>4. \A u \in Thread : \A i \in DOMAIN stack'[u] :
        stack'[u][i].at \in Initializing => lazy.st = "running" /\ lazy.by = u /\ i = Len(stack'[u])
  <2> TAKE u \in Thread
  <2> TAKE i \in DOMAIN stack'[u]
  <2> HAVE stack'[u][i].at \in Initializing
  <2>1. i \in DOMAIN stack[u] /\ stack'[u][i] = stack[u][i] /\ (u # t \/ i # Len(stack[u]))
    BY <1>1 DEF Popped
  <2>2. lazy.st = "running" /\ lazy.by = u /\ i = Len(stack[u])
    BY <2>1 DEF OneInitializer
  <2> QED
    BY <2>1, <2>2, <1>1 DEF Popped
<1> QED
  BY <1>3, <1>4 DEF OneInitializer

(* A task or a touch ends with an outcome of its own. *)
LEMMA EndKeeps ==
  ASSUME Inductive, NEW t \in Thread, NEW at \in Places \ {"asleep", "chunk"}, At(t, at),
         NEW how \in {"created", "panicked", "updated"}, Ended(t, how),
         UNCHANGED <<queue, deltas, plan, chunked>>,
         how = "updated" => chunked[Top(t).job.task] = [i \in Ranges |-> ChunkAlone(i)]
  PROVE  /\ stack' \in Stacks /\ JobsFit' /\ OneHolder' /\ Chunked'
         /\ outcome' \in [Tasks \cup Touches -> {"none", "created", "panicked", "updated"}]
<1> USE DEF Inductive
<1>0. PICK n, e : n = Len(stack[t]) /\ e = Top(t).job.task
  OBVIOUS
<1>1. Popped(stack, stack', t)
  BY PopPops DEF Ended
<1>2. n \in DOMAIN stack[t] /\ Top(t) = stack[t][n] /\ stack[t][n].at = at /\ Top(t).job \in Jobs
  BY <1>0, TopIs
<1>3. outcome \in [Tasks \cup Touches -> {"none", "created", "panicked", "updated"}]
  BY DEF TypeOK
<1>4. e \in Tasks \cup Touches
  BY <1>0, <1>2 DEF Jobs
<1>5. outcome' = [outcome EXCEPT ![e] = how]
  BY <1>0 DEF Ended
<1>6. outcome'[e] = how /\ \A k \in Tasks : k # e => outcome'[k] = outcome[k]
  BY <1>3, <1>4, <1>5
<1>7. outcome' \in [Tasks \cup Touches -> {"none", "created", "panicked", "updated"}]
  BY <1>3, <1>4, <1>5
<1>8. JobsFit'
  BY <1>1 DEF JobsFit, Popped
<1>9. e \in Tasks => Holds(t, n, e)
  <2>1. FitsAt(stack[t][n].job, at)
    BY <1>0, <1>2 DEF JobsFit
  <2>2. e \in Tasks => stack[t][n].job.kind \in {"task", "op"}
    BY <2>1, <1>0, <1>2, DisjointAssumption DEF FitsAt, Fits, Places, Initializing, Tasks
  <2> QED
    BY <2>2, <1>0, <1>2 DEF Holds, IsOperation
<1>10. \A u \in Thread : \A i \in DOMAIN stack'[u] : \A k : Holds(u, i, k)' => Holds(u, i, k) /\ i \in DOMAIN stack[u]
  BY <1>1 DEF Holds, Popped
<1>11. \A u \in Thread : \A i \in DOMAIN stack'[u] : e \in Tasks => ~ Holds(u, i, e)'
  BY <1>0, <1>1, <1>2, <1>9, <1>10 DEF OneHolder, Popped
<1>12. e \in Tasks => \A job \in queue : ~ IsOperation(job, e)
  BY <1>2, <1>9 DEF OneHolder
<1>13. OneHolder'
  BY <1>6, <1>10, <1>11, <1>12 DEF OneHolder
<1>14. Ranges' = Ranges /\ \A k : InChunks(k)' <=> InChunks(k)
  BY ChunksStay
<1>15. \A job, a : ChunkAt(job, a)' <=> ChunkAt(job, a)
  BY <1>14 DEF ChunkAt, IsChunk
<1>16. AsIfAlone'
  <2>1. \A i : ChunkAlone(i)' = ChunkAlone(i)
    BY DEF ChunkAlone
  <2>2. AsIfAlone
    BY DEF Chunked
  <2>3. how = "updated" => chunked[e] = [i \in Ranges |-> ChunkAlone(i)]
    BY <1>0
  <2> QED
    BY <1>6, <1>14, <2>1, <2>2, <2>3 DEF AsIfAlone
<1>17. Chunked'
  BY <1>1, <1>14, <1>15, <1>16 DEF Chunked, Popped, IsChunk
<1> QED
  BY <1>1, <1>7, <1>8, <1>13, <1>17 DEF Popped
-------------------------------------------------------------------------------
(* The actions of the initialization *)

LEMMA ForceFirstStep ==
  ASSUME Inductive, NEW t \in Thread, ForceFirst(t)
  PROVE  Inductive'
<1> USE DEF Inductive
<1>1. At(t, "force") /\ Go(t, "pool") /\ lazy.st = "new" /\ lazy' = [st |-> "running", by |-> t]
  BY DEF ForceFirst
<1>2. UNCHANGED <<queue, deltas, plan, chunked, outcome>>
  BY DEF ForceFirst, adding
<1>3. "pool" \in Places \cap Initializing
  BY DEF Places, Initializing
<1>4. /\ Len(stack[t]) \in Nat \ {0} /\ Len(stack[t]) \in DOMAIN stack[t]
      /\ Top(t) = stack[t][Len(stack[t])] /\ Top(t).at = "force"
  BY <1>1, TopIs
<1>5. FitsAt(Top(t).job, "pool") /\ ChunkAt(Top(t).job, "pool")
  BY <1>4 DEF JobsFit, FitsAt, ChunkAt, Initializing
<1>6. stack' \in Stacks /\ JobsFit' /\ OneHolder' /\ Chunked'
  BY <1>1, <1>2, <1>3, <1>5, MoveKeeps
<1>7. TypeOK'
  BY <1>1, <1>2, <1>6 DEF TypeOK, Stacks
<1>8. OneInitializer'
  <2>1. Moved(stack, stack', t, "pool")
    BY <1>1, <1>3, GoMoves
  <2>2. Top(t)'.at = "pool" /\ stack'[t] # << >>
    BY <1>4, <2>1 DEF Moved, Top, Last
  <2>3. \A u \in Thread : \A i \in DOMAIN stack'[u] :
          stack'[u][i].at \in Initializing => u = t /\ i = Len(stack'[u])
    BY <1>1, <2>1 DEF OneInitializer, Moved
  <2> QED
    BY <1>1, <1>3, <2>2, <2>3 DEF OneInitializer
<1> QED
  BY <1>6, <1>7, <1>8

LEMMA ForceAgainStep ==
  ASSUME Inductive, NEW t \in Thread, ForceAgain(t)
  PROVE  Inductive'
<1> USE DEF Inductive
<1>1. At(t, "force") /\ UNCHANGED <<lazy, queue, deltas, plan, chunked>>
  BY DEF ForceAgain, building
<1>2. "force" \in Places \ {"asleep", "chunk"} /\ "force" \notin Initializing
  BY DEF Places, Initializing
<1>3. "update" \in Places /\ "update" \notin Initializing
  BY DEF Places, Initializing
<1>4. CASE Top(t).job.kind = "task" /\ Go(t, "update") /\ UNCHANGED outcome
  <2>1. Len(stack[t]) \in DOMAIN stack[t] /\ Top(t) = stack[t][Len(stack[t])]
    BY <1>1, TopIs
  <2>2. FitsAt(Top(t).job, "update") /\ ChunkAt(Top(t).job, "update")
    BY <1>4, <2>1 DEF JobsFit, FitsAt, ChunkAt, Initializing
  <2>3. stack' \in Stacks /\ JobsFit' /\ OneHolder' /\ Chunked'
    BY <1>1, <1>3, <1>4, <2>2, MoveKeeps
  <2>4. OneInitializer'
    BY <1>1, <1>2, <1>3, <1>4, MoveKeepsInitializer
  <2>5. TypeOK'
    BY <1>1, <1>4, <2>3 DEF TypeOK, Stacks
  <2> QED
    BY <2>3, <2>4, <2>5
<1>5. ASSUME NEW how \in {"created", "panicked"}, Ended(t, how)
      PROVE  Inductive'
  <2>1. /\ stack' \in Stacks /\ JobsFit' /\ OneHolder' /\ Chunked'
        /\ outcome' \in [Tasks \cup Touches -> {"none", "created", "panicked", "updated"}]
    BY <1>1, <1>2, <1>5, EndKeeps
  <2>2. OneInitializer'
    BY <1>1, <1>2, <1>5, PopKeepsInitializer DEF Ended
  <2>3. TypeOK'
    BY <1>1, <2>1 DEF TypeOK, Stacks
  <2> QED
    BY <2>1, <2>2, <2>3
<1> QED
  BY <1>4, <1>5 DEF ForceAgain

LEMMA InitializerMoves ==
  ASSUME Inductive, NEW t \in Thread, NEW at \in Initializing, At(t, at),
         NEW to \in Initializing, Go(t, to), UNCHANGED <<lazy, queue, deltas, plan, chunked, outcome>>
  PROVE  Inductive'
<1> USE DEF Inductive
<1>1. to \in Places /\ at # "asleep" /\ to # "asleep" /\ to # "chunk" /\ to # "wait"
  BY DEF Places, Initializing
<1>2. Len(stack[t]) \in DOMAIN stack[t] /\ Top(t) = stack[t][Len(stack[t])] /\ Top(t).at = at
  BY TopIs
<1>3. FitsAt(Top(t).job, to) /\ ChunkAt(Top(t).job, to)
  BY <1>1, <1>2 DEF JobsFit, FitsAt, ChunkAt, Initializing
<1>4. stack' \in Stacks /\ JobsFit' /\ OneHolder' /\ Chunked'
  BY <1>1, <1>3, MoveKeeps
<1>5. OneInitializer'
  BY <1>1, MoveKeepsInitializer
<1>6. TypeOK'
  BY <1>4 DEF TypeOK, Stacks
<1> QED
  BY <1>4, <1>5, <1>6

(* A step of nothing that the invariant is about *)
LEMMA NothingMoves ==
  ASSUME Inductive, UNCHANGED <<lazy, queue, stack, adding>>
  PROVE  Inductive'
<1> USE DEF Inductive, adding
<1>1. TypeOK'
  BY DEF TypeOK
<1>2. JobsFit'
  BY DEF JobsFit
<1>3. OneInitializer'
  BY DEF OneInitializer, Top
<1>4. OneHolder'
  BY DEF OneHolder, Holds
<1>5. Chunked'
  BY DEF Chunked, ChunkAt, IsChunk, InChunks, AsIfAlone, Ranges, ChunkAlone
<1> QED
  BY <1>1, <1>2, <1>3, <1>4, <1>5

LEMMA BuildPoolStep ==
  ASSUME Inductive, NEW t \in Thread, BuildPool(t)
  PROVE  Inductive'
<1>1. At(t, "pool") /\ UNCHANGED <<lazy, queue, adding>> /\ (Go(t, "spawn") \/ UNCHANGED stack)
  BY DEF BuildPool
<1>2. "pool" \in Initializing /\ "spawn" \in Initializing
  BY DEF Initializing
<1>3. UNCHANGED <<lazy, queue, deltas, plan, chunked, outcome>>
  BY <1>1 DEF adding
<1>4. CASE Go(t, "spawn")
  BY <1>1, <1>2, <1>3, <1>4, InitializerMoves
<1>5. CASE UNCHANGED stack
  BY <1>1, <1>5, NothingMoves
<1> QED
  BY <1>1, <1>4, <1>5

LEMMA SpawnInitStep ==
  ASSUME Inductive, NEW t \in Thread, SpawnInit(t)
  PROVE  Inductive'
<1>1. At(t, "spawn") /\ UNCHANGED <<lazy, queue, adding>> /\ (Go(t, "join") \/ UNCHANGED stack)
  BY DEF SpawnInit
<1>2. "spawn" \in Initializing /\ "join" \in Initializing
  BY DEF Initializing
<1>3. UNCHANGED <<lazy, queue, deltas, plan, chunked, outcome>>
  BY <1>1 DEF adding
<1>4. CASE Go(t, "join")
  BY <1>1, <1>2, <1>3, <1>4, InitializerMoves
<1>5. CASE UNCHANGED stack
  BY <1>1, <1>5, NothingMoves
<1> QED
  BY <1>1, <1>4, <1>5

LEMMA JoinInitStep ==
  ASSUME Inductive, NEW t \in Thread, JoinInit(t)
  PROVE  Inductive'
<1> USE DEF Inductive
<1>1. At(t, "join") /\ UNCHANGED <<queue, deltas, plan, chunked>>
  BY DEF JoinInit
<1>2. /\ "join" \in Places \ {"asleep", "chunk"} /\ "join" \in Initializing
      /\ "force" \in Places /\ "force" \notin Initializing
  BY DEF Places, Initializing
<1>3. Len(stack[t]) \in DOMAIN stack[t] /\ Top(t) = stack[t][Len(stack[t])] /\ Top(t).at = "join"
  BY <1>1, TopIs
<1>4. lazy.st = "running" /\ lazy.by = t
  BY <1>2, <1>3 DEF OneInitializer
<1>5. \A u \in Thread : \A i \in DOMAIN stack[u] :
        stack[u][i].at \in Initializing => u = t /\ i = Len(stack[u])
  BY <1>4 DEF OneInitializer
<1>6. CASE lazy' = [lazy EXCEPT !.st = "done"] /\ Go(t, "force") /\ UNCHANGED outcome
  <2>1. FitsAt(Top(t).job, "force") /\ ChunkAt(Top(t).job, "force")
    BY <1>3 DEF JobsFit, FitsAt, ChunkAt, Initializing
  <2>2. stack' \in Stacks /\ JobsFit' /\ OneHolder' /\ Chunked'
    BY <1>1, <1>2, <1>6, <2>1, MoveKeeps
  <2>3. Moved(stack, stack', t, "force")
    BY <1>1, <1>2, <1>6, GoMoves
  <2>4. \A u \in Thread : \A i \in DOMAIN stack'[u] : stack'[u][i].at \notin Initializing
    BY <1>2, <1>5, <2>3 DEF Moved
  <2>5. lazy'.st = "done" /\ lazy' \in [st : {"new", "running", "done", "poisoned"}, by : Thread \cup {"nobody"}]
    BY <1>6 DEF TypeOK
  <2>6. OneInitializer'
    BY <2>4, <2>5 DEF OneInitializer
  <2>7. TypeOK'
    BY <1>1, <1>6, <2>2, <2>5 DEF TypeOK, Stacks
  <2> QED
    BY <2>2, <2>6, <2>7
<1>7. CASE lazy' = [lazy EXCEPT !.st = "poisoned"] /\ Ended(t, "panicked")
  <2>1. /\ stack' \in Stacks /\ JobsFit' /\ OneHolder' /\ Chunked'
        /\ outcome' \in [Tasks \cup Touches -> {"none", "created", "panicked", "updated"}]
    BY <1>1, <1>2, <1>7, EndKeeps
  <2>2. Popped(stack, stack', t)
    BY <1>1, <1>7, PopPops DEF Ended
  <2>3. \A u \in Thread : \A i \in DOMAIN stack'[u] : stack'[u][i].at \notin Initializing
    BY <1>5, <2>2 DEF Popped
  <2>4. lazy'.st = "poisoned" /\ lazy' \in [st : {"new", "running", "done", "poisoned"}, by : Thread \cup {"nobody"}]
    BY <1>7 DEF TypeOK
  <2>5. OneInitializer'
    BY <2>3, <2>4 DEF OneInitializer
  <2>6. TypeOK'
    BY <1>1, <2>1, <2>4 DEF TypeOK, Stacks
  <2> QED
    BY <2>1, <2>5, <2>6
<1> QED
  BY <1>6, <1>7 DEF JoinInit
-------------------------------------------------------------------------------
(* The actions of the pool and of the updates *)

LEMMA TakeJobStep ==
  ASSUME Inductive, NEW t \in Thread, TakeJob(t)
  PROVE  Inductive'
<1> USE DEF Inductive
<1> DEFINE Start(job) == CASE job.kind \in {"touch", "task"} -> "force"
                           [] job.kind = "op" -> "split"
                           [] job.kind = "chunk" -> "chunk"
<1>1. PICK job \in queue : queue' = queue \ {job}
                           /\ stack' = [stack EXCEPT ![t] = Append(@, Frame(job, Start(job)))]
  BY DEF TakeJob
<1>2. PICK f : f = Frame(job, Start(job))
  OBVIOUS
<1>3. UNCHANGED <<lazy, deltas, plan, chunked, outcome>>
  BY DEF TakeJob, building, adding
<1>4. job \in Jobs /\ job.kind \in {"touch", "task", "op", "chunk"}
  BY DEF TypeOK, Jobs
<1>5. Start(job) \in {"force", "split", "chunk"} /\ Start(job) \in Places /\ Start(job) \notin Initializing
  BY <1>4 DEF Places, Initializing
<1>6. f \in Frames /\ f.job = job /\ f.at = Start(job)
  BY <1>2, <1>4, <1>5 DEF Frame, Frames
<1>7. Pushed(stack, stack', t, f)
  <2>1. stack \in Stacks
    BY DEF TypeOK, Stacks
  <2> QED
    BY <2>1, <1>1, <1>2, <1>6, PushStacks
<1>8. TypeOK'
  BY <1>1, <1>3, <1>7 DEF TypeOK, Pushed, Stacks
<1>9. JobsFit'
  <2>1. FitsAt(job, Start(job))
    BY <1>4 DEF JobsFit, FitsAt, Initializing
  <2> QED
    BY <1>1, <1>6, <1>7, <2>1 DEF JobsFit, Pushed
<1>10. OneInitializer'
  <2>1. stack[t] = << >> \/ stack[t][Len(stack[t])].at = "wait"
    BY DEF TakeJob, CanTake, At, Top, Last
  <2>2. \A i \in DOMAIN stack[t] : stack[t][i].at \notin Initializing
    BY <2>1 DEF OneInitializer, Initializing
  <2>3. \A u \in Thread : \A i \in DOMAIN stack'[u] :
          stack'[u][i].at \in Initializing => lazy.st = "running" /\ lazy.by = u /\ i = Len(stack'[u])
    <3> TAKE u \in Thread
    <3> TAKE i \in DOMAIN stack'[u]
    <3> HAVE stack'[u][i].at \in Initializing
    <3>1. i \in DOMAIN stack[u] /\ stack'[u][i] = stack[u][i]
      BY <1>5, <1>6, <1>7 DEF Pushed
    <3>2. u # t
      BY <2>2, <3>1
    <3> QED
      BY <3>1, <3>2, <1>7 DEF OneInitializer, Pushed
  <2>4. ASSUME lazy.st = "running"
        PROVE  lazy.by \in Thread /\ stack'[lazy.by] # << >> /\ Top(lazy.by)'.at \in Initializing
    <3>1. lazy.by \in Thread /\ stack[lazy.by] # << >> /\ stack[lazy.by][Len(stack[lazy.by])].at \in Initializing
      BY <2>4 DEF OneInitializer, Top, Last
    <3>2. Len(stack[lazy.by]) # 0 /\ Len(stack[lazy.by]) \in DOMAIN stack[lazy.by]
      BY <3>1 DEF TypeOK
    <3>3. lazy.by # t
      BY <2>2, <3>1, <3>2
    <3>4. Len(stack'[lazy.by]) = Len(stack[lazy.by]) /\ DOMAIN stack'[lazy.by] = DOMAIN stack[lazy.by]
      BY <3>1, <3>3, <1>7 DEF Pushed, Lengths
    <3>5. stack'[lazy.by] # << >>
      BY <3>2, <3>4
    <3>6. stack'[lazy.by][Len(stack[lazy.by])] = stack[lazy.by][Len(stack[lazy.by])]
      BY <3>1, <3>2, <3>3, <3>4, <1>7 DEF Pushed
    <3> QED
      BY <1>3, <3>1, <3>4, <3>5, <3>6 DEF Top, Last
  <2> QED
    BY <2>3, <2>4, <1>3 DEF OneInitializer
<1>11. OneHolder'
  <2>1. \A u \in Thread : \A i \in DOMAIN stack'[u] : \A k :
          Holds(u, i, k)' => \/ i \in DOMAIN stack[u] /\ Holds(u, i, k)
                             \/ u = t /\ i = Len(stack'[u]) /\ IsOperation(job, k)
    BY <1>6, <1>7 DEF Holds, Pushed
  <2>2. \A k \in Tasks : IsOperation(job, k) =>
          /\ outcome[k] = "none"
          /\ \A other \in queue' : ~ IsOperation(other, k)
          /\ \A u \in Thread : \A i \in DOMAIN stack[u] : ~ Holds(u, i, k)
    BY <1>1 DEF OneHolder
  <2>3. \A k \in Tasks : \A u, v \in Thread : \A i \in DOMAIN stack'[u], j \in DOMAIN stack'[v] :
          Holds(u, i, k)' /\ Holds(v, j, k)' => u = v /\ i = j
    <3> SUFFICES ASSUME NEW k \in Tasks, NEW u \in Thread, NEW v \in Thread,
                        NEW i \in DOMAIN stack'[u], NEW j \in DOMAIN stack'[v],
                        Holds(u, i, k)', Holds(v, j, k)'
                 PROVE  u = v /\ i = j
      OBVIOUS
    <3>1. CASE IsOperation(job, k)
      BY <3>1, <2>1, <2>2
    <3>2. CASE ~ IsOperation(job, k)
      BY <3>2, <2>1 DEF OneHolder
    <3> QED
      BY <3>1, <3>2
  <2>4. \A k \in Tasks : \A u \in Thread : \A i \in DOMAIN stack'[u] :
          Holds(u, i, k)' => outcome[k] = "none" /\ \A other \in queue' : ~ IsOperation(other, k)
    BY <2>1, <2>2, <1>1 DEF OneHolder
  <2> QED
    BY <2>3, <2>4, <1>1, <1>3 DEF OneHolder
<1>12. Chunked'
  <2>1. Ranges' = Ranges /\ (AsIfAlone => AsIfAlone') /\ \A k : InChunks(k)' <=> InChunks(k)
    BY <1>3, ChunksStay
  <2>2. \A j, a : ChunkAt(j, a)' <=> ChunkAt(j, a)
    BY <2>1 DEF ChunkAt, IsChunk
  <2>3. ChunkAt(job, Start(job))
    BY <1>4 DEF Chunked, ChunkAt
  <2> HIDE DEF Start
  <2> QED
    BY <1>1, <1>6, <1>7, <2>1, <2>2, <2>3 DEF Chunked, Pushed, IsChunk
<1> QED
  BY <1>8, <1>9, <1>10, <1>11, <1>12

(* The caller sleeps, and its operation is in the queue instead. *)
LEMMA EnterStep ==
  ASSUME Inductive, NEW t \in Thread, Enter(t)
  PROVE  Inductive'
<1> USE DEF Inductive
<1>1. At(t, "update") /\ UNCHANGED <<lazy, deltas, plan, chunked, outcome>>
  BY DEF Enter, building, adding
<1>2. PICK n, e : n = Len(stack[t]) /\ e = Top(t).job.task
  OBVIOUS
<1>3. /\ n \in DOMAIN stack[t] /\ Top(t) = stack[t][n] /\ Top(t).at = "update"
      /\ Top(t).job \in Jobs /\ stack[t][n].at = "update"
  BY <1>1, <1>2, TopIs
<1>4. FitsAt(Top(t).job, "update")
  BY <1>3 DEF JobsFit
<1>5. Top(t).job.kind = "task" /\ e \in Tasks
  BY <1>2, <1>4 DEF FitsAt, Fits
<1>6. {"update", "split", "asleep"} \subseteq Places \ Initializing
  BY DEF Places, Initializing
<1>7. CASE Go(t, "split") /\ UNCHANGED queue
  <2>1. FitsAt(Top(t).job, "split") /\ ChunkAt(Top(t).job, "split")
    BY <1>4, <1>5 DEF FitsAt, ChunkAt, Initializing
  <2>2. stack' \in Stacks /\ JobsFit' /\ OneHolder' /\ Chunked'
    BY <1>1, <1>6, <1>7, <2>1, MoveKeeps
  <2>3. OneInitializer'
    BY <1>1, <1>6, <1>7, MoveKeepsInitializer
  <2>4. TypeOK'
    BY <1>1, <1>7, <2>2 DEF TypeOK, Stacks
  <2> QED
    BY <2>2, <2>3, <2>4
<1>8. CASE Go(t, "asleep") /\ queue' = queue \cup {Job("op", Top(t).job.task, 0)}
  <2>1. PICK op : op = Job("op", e, 0)
    OBVIOUS
  <2>2. queue' = queue \cup {op}
    BY <1>2, <1>8, <2>1
  <2>3. op \in Jobs /\ op.kind = "op" /\ op.task = e
    BY <1>5, <2>1 DEF Job, Jobs
  <2>4. Moved(stack, stack', t, "asleep")
    BY <1>1, <1>6, <1>8, GoMoves
  <2>5. TypeOK'
    BY <1>1, <2>2, <2>3, <2>4 DEF TypeOK, Moved, Stacks
  <2>6. JobsFit'
    <3>1. FitsAt(Top(t).job, "asleep") /\ Fits(op)
      BY <1>4, <1>5, <2>3 DEF FitsAt, Fits, Initializing
    <3> QED
      BY <1>2, <1>3, <2>2, <2>4, <3>1 DEF JobsFit, Moved
  <2>7. OneInitializer'
    BY <1>1, <1>6, <1>8, MoveKeepsInitializer
  <2>8. OneHolder'
    <3>1. Holds(t, n, e)
      BY <1>2, <1>3, <1>5 DEF Holds, IsOperation
    <3>2. \A u \in Thread : \A i \in DOMAIN stack'[u] : \A k :
            Holds(u, i, k)' => i \in DOMAIN stack[u] /\ Holds(u, i, k) /\ (u # t \/ i # n)
      BY <1>2, <1>3, <2>4 DEF Holds, Moved
    <3>3. \A u \in Thread : \A i \in DOMAIN stack'[u] : ~ Holds(u, i, e)'
      BY <1>3, <1>5, <3>1, <3>2 DEF OneHolder
    <3>4. outcome[e] = "none" /\ \A job \in queue : ~ IsOperation(job, e)
      BY <1>3, <1>5, <3>1 DEF OneHolder
    <3>5. \A k : IsOperation(op, k) <=> k = e
      BY <2>3 DEF IsOperation
    <3>6. \A k \in Tasks : \A job, other \in queue' :
            IsOperation(job, k) /\ IsOperation(other, k) => job = other
      BY <2>2, <3>4, <3>5 DEF OneHolder
    <3>7. \A k \in Tasks : \A u \in Thread : \A i \in DOMAIN stack'[u] :
            Holds(u, i, k)' => outcome[k] = "none" /\ \A job \in queue' : ~ IsOperation(job, k)
      BY <2>2, <3>2, <3>3, <3>5 DEF OneHolder
    <3>8. \A k \in Tasks : \A job \in queue' : IsOperation(job, k) => outcome[k] = "none"
      BY <2>2, <3>4, <3>5 DEF OneHolder
    <3>9. \A k \in Tasks : \A u, v \in Thread : \A i \in DOMAIN stack'[u], j \in DOMAIN stack'[v] :
            Holds(u, i, k)' /\ Holds(v, j, k)' => u = v /\ i = j
      BY <3>2 DEF OneHolder
    <3> QED
      BY <1>1, <3>6, <3>7, <3>8, <3>9 DEF OneHolder
  <2>9. Chunked'
    <3>1. Ranges' = Ranges /\ (AsIfAlone => AsIfAlone') /\ \A k : InChunks(k)' <=> InChunks(k)
      BY <1>1, ChunksStay
    <3>2. \A j, a : ChunkAt(j, a)' <=> ChunkAt(j, a)
      BY <3>1 DEF ChunkAt, IsChunk
    <3>3. ChunkAt(Top(t).job, "asleep")
      BY DEF ChunkAt
    <3> QED
      BY <1>2, <1>3, <2>2, <2>3, <2>4, <3>1, <3>2, <3>3 DEF Chunked, Moved, IsChunk
  <2> QED
    BY <2>5, <2>6, <2>7, <2>8, <2>9
<1> QED
  BY <1>7, <1>8 DEF Enter

(* The chunks of the operation are in the queue, and none of them is done. *)
LEMMA SplitStep ==
  ASSUME Inductive, NEW t \in Thread, Split(t)
  PROVE  Inductive'
<1> USE DEF Inductive
<1>1. At(t, "split") /\ Go(t, "wait") /\ UNCHANGED <<lazy, deltas, outcome>>
  BY DEF Split, building
<1>2. PICK n, e : n = Len(stack[t]) /\ e = Top(t).job.task
  OBVIOUS
<1>3. /\ n \in DOMAIN stack[t] /\ Top(t) = stack[t][n] /\ Top(t).at = "split"
      /\ Top(t).job \in Jobs /\ stack[t][n].at = "split"
  BY <1>1, <1>2, TopIs
<1>4. FitsAt(Top(t).job, "split")
  BY <1>3 DEF JobsFit
<1>5. Top(t).job.kind \in {"task", "op"} /\ e \in Tasks
  BY <1>2, <1>4 DEF FitsAt, Fits
<1>6. {"split", "wait"} \subseteq Places \ Initializing
  BY DEF Places, Initializing
<1>7. PICK P, R : P = Planned(deltas) /\ R = Ranges
  OBVIOUS
<1>8. R = DOMAIN P.ranges
  BY <1>7 DEF Ranges
<1>9. /\ plan' = [plan EXCEPT ![e] = P]
      /\ chunked' = [chunked EXCEPT ![e] = [i \in R |-> Running]]
      /\ queue' = queue \cup {Job("chunk", e, i) : i \in R}
  BY <1>2, <1>7, <1>8 DEF Split
<1>10. R \subseteq Nat
  BY <1>7 DEF Ranges, Planned, create_node_aligned_chunks
<1>11. Moved(stack, stack', t, "wait")
  BY <1>1, <1>6, GoMoves
<1>12. Planned(deltas)' = P /\ Ranges' = R
  BY <1>1, <1>7 DEF Ranges
<1>13. TypeOK'
  <2>1. queue' \subseteq Jobs
    <3>1. \A i \in R : Job("chunk", e, i) \in Jobs
      BY <1>5, <1>10 DEF Job, Jobs
    <3>2. queue \subseteq Jobs
      BY DEF TypeOK
    <3> QED
      BY <1>9, <3>1, <3>2
  <2>2. plan' \in [Tasks -> {[ds |-> << >>, ranges |-> << >>], P}]
    BY <1>5, <1>7, <1>9 DEF TypeOK
  <2>3. DOMAIN chunked' = Tasks
    BY <1>9 DEF TypeOK
  <2> QED
    BY <1>1, <1>11, <1>12, <2>1, <2>2, <2>3 DEF TypeOK, Moved, Stacks
<1>14. \A job \in queue' : \/ job \in queue
                           \/ job.kind = "chunk" /\ job.task = e /\ job.chunk \in R
  BY <1>9 DEF Job
<1>15. JobsFit'
  <2>1. FitsAt(Top(t).job, "wait")
    BY <1>4, <1>5 DEF FitsAt, Initializing
  <2>2. \A job \in queue' : Fits(job)
    BY <1>5, <1>14 DEF JobsFit, Fits
  <2> QED
    BY <1>2, <1>3, <1>11, <2>1, <2>2 DEF JobsFit, Moved
<1>16. OneInitializer'
  BY <1>1, <1>6, MoveKeepsInitializer
<1>17. OneHolder'
  <2>1. \A u \in Thread : \A i \in DOMAIN stack'[u] : \A k : Holds(u, i, k)' => Holds(u, i, k)
    BY <1>2, <1>3, <1>11 DEF Holds, Moved
  <2>2. \A job \in queue' : \A k : IsOperation(job, k) => job \in queue
    BY <1>14 DEF IsOperation
  <2> QED
    BY <1>1, <1>11, <2>1, <2>2 DEF OneHolder, Moved
<1>18. Chunked'
  <2>1. \A i : ChunkAlone(i)' = ChunkAlone(i)
    BY <1>1 DEF ChunkAlone
  <2>2. /\ plan'[e] = P /\ chunked'[e] = [i \in R |-> Running]
        /\ \A k \in Tasks : k # e => plan'[k] = plan[k] /\ chunked'[k] = chunked[k]
    BY <1>5, <1>9 DEF TypeOK
  <2>3. InChunks(e)'
    BY <1>12, <2>2 DEF InChunks
  <2>4. \A k \in Tasks : InChunks(k) => InChunks(k)'
    <3> TAKE k \in Tasks
    <3> HAVE InChunks(k)
    <3>1. CASE k = e
      BY <3>1, <2>3
    <3>2. CASE k # e
      BY <3>2, <1>7, <1>12, <2>1, <2>2 DEF InChunks
    <3> QED
      BY <3>1, <3>2
  <2>5. \A job \in queue' : job.kind = "chunk" => IsChunk(job)'
    <3> SUFFICES ASSUME NEW job \in queue', job.kind = "chunk" PROVE IsChunk(job)'
      OBVIOUS
    <3>1. CASE job \in queue
      <4>1. IsChunk(job) /\ job.task \in Tasks
        BY <3>1 DEF Chunked, JobsFit, Fits
      <4> QED
        BY <4>1, <1>7, <1>12, <2>4 DEF IsChunk
    <3>2. CASE job.task = e /\ job.chunk \in R
      BY <3>2, <1>12, <2>3 DEF IsChunk
    <3> QED
      BY <3>1, <3>2, <1>14
  <2>6. \A u \in Thread : \A i \in DOMAIN stack'[u] : ChunkAt(stack[u][i].job, stack[u][i].at)'
    <3> SUFFICES ASSUME NEW u \in Thread, NEW i \in DOMAIN stack'[u]
                 PROVE  ChunkAt(stack[u][i].job, stack[u][i].at)'
      OBVIOUS
    <3>1. i \in DOMAIN stack[u] /\ stack'[u][i].job = stack[u][i].job
      BY <1>11 DEF Moved
    <3>2. CASE u = t /\ i = n
      <4>1. stack'[u][i].at = "wait" /\ stack'[u][i].job.task = e
        BY <1>2, <1>3, <1>11, <3>1, <3>2 DEF Moved
      <4> QED
        BY <4>1, <2>3 DEF ChunkAt
    <3>3. CASE u # t \/ i # n
      <4>1. stack'[u][i].at = stack[u][i].at
        BY <1>2, <1>11, <3>1, <3>3 DEF Moved
      <4>2. ChunkAt(stack[u][i].job, stack[u][i].at) /\ FitsAt(stack[u][i].job, stack[u][i].at)
        BY <3>1 DEF Chunked, JobsFit
      <4>3. stack[u][i].at \in {"chunk", "wait"} => stack[u][i].job.task \in Tasks
        BY <4>2 DEF FitsAt, Fits
      <4> QED
        BY <4>1, <4>2, <4>3, <3>1, <1>7, <1>12, <2>4 DEF ChunkAt, IsChunk
    <3> QED
      BY <3>2, <3>3
  <2>7. AsIfAlone'
    <3>1. outcome[e] = "none"
      <4>1. Holds(t, n, e)
        BY <1>2, <1>3, <1>5 DEF Holds, IsOperation
      <4> QED
        BY <4>1, <1>3, <1>5 DEF OneHolder
    <3>2. AsIfAlone
      BY DEF Chunked
    <3> QED
      BY <1>1, <1>7, <1>12, <2>1, <2>2, <3>1, <3>2 DEF AsIfAlone
  <2> QED
    BY <2>5, <2>6, <2>7 DEF Chunked
<1> QED
  BY <1>13, <1>15, <1>16, <1>17, <1>18

(* A frame that is no operation ends: a chunk, or a caller that wakes. *)
LEMMA PopKeeps ==
  ASSUME Inductive, NEW t \in Thread, NEW at, At(t, at), Pop(t), UNCHANGED <<queue, outcome>>
  PROVE  stack' \in Stacks /\ JobsFit' /\ OneHolder'
<1> USE DEF Inductive
<1>1. Popped(stack, stack', t)
  BY PopPops
<1>2. JobsFit'
  BY <1>1 DEF JobsFit, Popped
<1>3. \A u \in Thread : \A i \in DOMAIN stack'[u] : \A k :
        i \in DOMAIN stack[u] /\ (Holds(u, i, k)' => Holds(u, i, k))
  BY <1>1 DEF Holds, Popped
<1>4. OneHolder'
  BY <1>3 DEF OneHolder
<1> QED
  BY <1>1, <1>2, <1>4 DEF Popped

LEMMA DoChunkStep ==
  ASSUME Inductive, NEW t \in Thread, DoChunk(t)
  PROVE  Inductive'
<1> USE DEF Inductive
<1>1. At(t, "chunk") /\ Pop(t) /\ UNCHANGED <<lazy, queue, deltas, plan, outcome>>
  BY DEF DoChunk, building
<1>2. PICK e, c : e = Top(t).job.task /\ c = Top(t).job.chunk
  OBVIOUS
<1>3. Len(stack[t]) \in DOMAIN stack[t] /\ Top(t) = stack[t][Len(stack[t])] /\ Top(t).at = "chunk"
  BY <1>1, TopIs
<1>4. e \in Tasks /\ InChunks(e) /\ c \in Ranges
  <2>1. FitsAt(Top(t).job, "chunk") /\ ChunkAt(Top(t).job, "chunk")
    BY <1>3 DEF JobsFit, Chunked
  <2> QED
    BY <1>2, <2>1 DEF FitsAt, Fits, ChunkAt, IsChunk
<1>5. chunked' = [chunked EXCEPT ![e][c] = ChunkAlone(c)]
  <2>1. plan[e] = Planned(deltas)
    BY <1>4 DEF InChunks
  <2> QED
    BY <1>2, <2>1 DEF DoChunk, ChunkAlone
<1>6. "chunk" \notin Initializing
  BY DEF Initializing
<1>7. stack' \in Stacks /\ JobsFit' /\ OneHolder'
  BY <1>1, PopKeeps
<1>8. OneInitializer'
  BY <1>1, <1>6, PopKeepsInitializer
<1>9. TypeOK'
  BY <1>1, <1>5, <1>7 DEF TypeOK, Stacks
<1>10. Ranges' = Ranges /\ \A i : ChunkAlone(i)' = ChunkAlone(i)
  BY <1>1 DEF Ranges, ChunkAlone
<1>11. PICK R, alone : R = Ranges /\ alone = [i \in R |-> ChunkAlone(i)]
  OBVIOUS
<1>12. /\ chunked[e] = [i \in R |-> chunked[e][i]]
       /\ chunked'[e] = [i \in R |-> IF i = c THEN alone[c] ELSE chunked[e][i]]
       /\ \A k \in Tasks : k # e => chunked'[k] = chunked[k]
  <2>1. chunked[e] = [i \in R |-> chunked[e][i]]
    BY <1>4, <1>11 DEF InChunks
  <2>2. DOMAIN chunked = Tasks
    BY DEF TypeOK
  <2>3. alone[c] = ChunkAlone(c)
    BY <1>4, <1>11
  <2>4. chunked'[e] = [chunked[e] EXCEPT ![c] = alone[c]]
    BY <1>4, <1>5, <2>2, <2>3
  <2> QED
    BY <1>4, <1>5, <1>11, <2>1, <2>2, <2>4
<1>13. \A k \in Tasks : InChunks(k) => InChunks(k)'
  <2> TAKE k \in Tasks
  <2> HAVE InChunks(k)
  <2>1. CASE k = e
    <3>1. \A i \in R : chunked'[e][i] \in {Running, ChunkAlone(i)}
      BY <2>1, <1>4, <1>11, <1>12 DEF InChunks
    <3>2. chunked'[e] = [i \in R |-> chunked'[e][i]]
      BY <1>12
    <3> QED
      BY <2>1, <3>1, <3>2, <1>1, <1>10, <1>11 DEF InChunks
  <2>2. CASE k # e
    BY <2>2, <1>1, <1>10, <1>12 DEF InChunks
  <2> QED
    BY <2>1, <2>2
<1>14. AsIfAlone'
  <2>1. AsIfAlone
    BY DEF Chunked
  <2>2. \A k \in Tasks : outcome[k] = "updated" => chunked[k] = alone
    BY <2>1, <1>11 DEF AsIfAlone
  <2>3. outcome[e] = "updated" => chunked'[e] = alone
    BY <2>2, <1>4, <1>11, <1>12
  <2>4. \A k \in Tasks : outcome[k] = "updated" => chunked'[k] = alone
    BY <2>2, <2>3, <1>12
  <2> QED
    BY <2>4, <1>1, <1>10, <1>11 DEF AsIfAlone
<1>15. Chunked'
  <2>1. \A job \in queue : job.kind = "chunk" => IsChunk(job)'
    <3>1. \A job \in queue : job.kind = "chunk" => job.task \in Tasks /\ IsChunk(job)
      BY DEF Chunked, JobsFit, Fits
    <3> QED
      BY <3>1, <1>10, <1>13 DEF IsChunk
  <2>2. \A u \in Thread : \A i \in DOMAIN stack'[u] : ChunkAt(stack[u][i].job, stack[u][i].at)'
    <3> SUFFICES ASSUME NEW u \in Thread, NEW i \in DOMAIN stack'[u]
                 PROVE  ChunkAt(stack[u][i].job, stack[u][i].at)'
      OBVIOUS
    <3>1. i \in DOMAIN stack[u] /\ stack'[u][i] = stack[u][i]
      BY <1>1, PopPops DEF Popped
    <3>2. ChunkAt(stack[u][i].job, stack[u][i].at) /\ FitsAt(stack[u][i].job, stack[u][i].at)
      BY <3>1 DEF Chunked, JobsFit
    <3>3. stack[u][i].at \in {"chunk", "wait"} => stack[u][i].job.task \in Tasks
      BY <3>2 DEF FitsAt, Fits
    <3> QED
      BY <3>1, <3>2, <3>3, <1>10, <1>13 DEF ChunkAt, IsChunk
  <2> QED
    BY <1>1, <1>14, <2>1, <2>2 DEF Chunked
<1> QED
  BY <1>7, <1>8, <1>9, <1>15

LEMMA CollectStep ==
  ASSUME Inductive, NEW t \in Thread, Collect(t)
  PROVE  Inductive'
<1> USE DEF Inductive
<1>1. At(t, "wait") /\ Ended(t, "updated") /\ UNCHANGED <<lazy, queue, deltas, plan, chunked>>
  BY DEF Collect, building
<1>2. "wait" \in Places \ {"asleep", "chunk"} /\ "wait" \notin Initializing
  BY DEF Places, Initializing
<1>3. PICK e : e = Top(t).job.task
  OBVIOUS
<1>4. Len(stack[t]) \in DOMAIN stack[t] /\ Top(t) = stack[t][Len(stack[t])] /\ Top(t).at = "wait"
  BY <1>1, TopIs
<1>5. InChunks(e)
  BY <1>3, <1>4 DEF Chunked, ChunkAt
<1>6. \A i \in DOMAIN chunked[e] : chunked[e][i] # Running
  BY <1>3 DEF Collect
<1>7. chunked[e] = [i \in Ranges |-> ChunkAlone(i)]
  BY <1>5, <1>6 DEF InChunks
<1>8. /\ stack' \in Stacks /\ JobsFit' /\ OneHolder' /\ Chunked'
      /\ outcome' \in [Tasks \cup Touches -> {"none", "created", "panicked", "updated"}]
  BY <1>1, <1>2, <1>3, <1>7, EndKeeps
<1>9. OneInitializer'
  BY <1>1, <1>2, PopKeepsInitializer DEF Ended
<1>10. TypeOK'
  BY <1>1, <1>8 DEF TypeOK, Stacks
<1> QED
  BY <1>8, <1>9, <1>10

LEMMA WakeStep ==
  ASSUME Inductive, NEW t \in Thread, Wake(t)
  PROVE  Inductive'
<1> USE DEF Inductive
<1>1. At(t, "asleep") /\ Pop(t) /\ UNCHANGED <<lazy, queue, deltas, plan, chunked, outcome>>
  BY DEF Wake, building, adding
<1>2. "asleep" \notin Initializing
  BY DEF Initializing
<1>3. stack' \in Stacks /\ JobsFit' /\ OneHolder'
  BY <1>1, PopKeeps
<1>4. OneInitializer'
  BY <1>1, <1>2, PopKeepsInitializer
<1>5. TypeOK'
  BY <1>1, <1>3 DEF TypeOK, Stacks
<1>6. Chunked'
  <2>1. Ranges' = Ranges /\ (AsIfAlone => AsIfAlone') /\ \A k : InChunks(k)' <=> InChunks(k)
    BY <1>1, ChunksStay
  <2>2. \A j, a : ChunkAt(j, a)' <=> ChunkAt(j, a)
    BY <2>1 DEF ChunkAt, IsChunk
  <2>3. Popped(stack, stack', t)
    BY <1>1, PopPops
  <2> QED
    BY <1>1, <2>1, <2>2, <2>3 DEF Chunked, Popped, IsChunk
<1> QED
  BY <1>3, <1>4, <1>5, <1>6

-------------------------------------------------------------------------------
LEMMA InitInductive == Init => Inductive
<1> SUFFICES ASSUME Init PROVE Inductive
  OBVIOUS
<1>1. \A t \in Thread : stack[t] = << >> \/ (t \in Callers /\ stack[t] = <<Frame(Job("task", t, 0), "force")>>)
  BY DEF Init
<1>2. \A t \in Callers : /\ Job("task", t, 0) \in Jobs
                         /\ Frame(Job("task", t, 0), "force") \in Frames
  BY DEF Job, Frame, Jobs, Frames, Places, Tasks
<1>3. \A t \in Thread :
        /\ stack[t] \in Seq(Frames)
        /\ \A i \in DOMAIN stack[t] : t \in Callers /\ i = 1 /\ stack[t][i] = Frame(Job("task", t, 0), "force")
  <2> TAKE t \in Thread
  <2>1. CASE stack[t] = << >>
    BY <2>1
  <2>2. CASE t \in Callers /\ stack[t] = <<Frame(Job("task", t, 0), "force")>>
    <3>1. PICK f \in Frames : f = Frame(Job("task", t, 0), "force")
      BY <1>2, <2>2
    <3>2. stack[t] = <<f>>
      BY <2>2, <3>1
    <3>3. stack[t] \in Seq(Frames) /\ \A i \in DOMAIN stack[t] : i = 1 /\ stack[t][i] = f
      BY <3>2
    <3> QED
      BY <2>2, <3>1, <3>3
  <2> QED
    BY <1>1, <2>1, <2>2
<1>4. \A t \in Thread : \A i \in DOMAIN stack[t] :
        /\ t \in Callers /\ i = 1 /\ stack[t][i].at = "force"
        /\ stack[t][i].job.kind = "task" /\ stack[t][i].job.task = t
  <2>1. \A t : LET f == Frame(Job("task", t, 0), "force")
              IN  f.at = "force" /\ f.job.kind = "task" /\ f.job.task = t
    BY DEF Job, Frame
  <2> QED
    BY <1>3, <2>1
<1>5. \A job \in queue : \/ job.kind = "touch" /\ job.task \in Touches
                         \/ job.kind = "task" /\ job.task \in PoolTasks
  BY DEF Init, Job
<1>6. \A job \in queue : job = Job(job.kind, job.task, 0)
  BY DEF Init, Job
<1>7. TypeOK
  <2>1. queue \subseteq Jobs
    BY DEF Init, Job, Jobs, Tasks
  <2>2. stack \in [Thread -> Seq(Frames)]
    BY <1>3 DEF Init
  <2> QED
    BY <2>1, <2>2 DEF Init, TypeOK
<1>8. JobsFit
  <2>1. \A job \in queue : Fits(job)
    BY <1>5 DEF Fits, Tasks
  <2>2. \A t \in Thread : \A i \in DOMAIN stack[t] : FitsAt(stack[t][i].job, stack[t][i].at)
    BY <1>4 DEF FitsAt, Fits, Tasks
  <2> QED
    BY <2>1, <2>2 DEF JobsFit
<1>9. OneInitializer
  BY <1>4 DEF Init, OneInitializer, Initializing
<1>10. \A k \in Tasks : outcome[k] = "none"
  BY DEF Init
<1>11. OneHolder
  <2>1. \A t \in Thread : \A i \in DOMAIN stack[t] : \A k : Holds(t, i, k) => k = t /\ k \in Callers /\ i = 1
    BY <1>4 DEF Holds, IsOperation
  <2>2. \A job \in queue : \A k : IsOperation(job, k) => k \in PoolTasks /\ job = Job("task", k, 0)
    BY <1>5, <1>6 DEF IsOperation
  <2> QED
    BY <1>10, <2>1, <2>2, DisjointAssumption DEF OneHolder
<1>12. Chunked
  BY <1>4, <1>5, <1>10 DEF Chunked, ChunkAt, AsIfAlone
<1> QED
  BY <1>7, <1>8, <1>9, <1>11, <1>12 DEF Inductive

LEMMA StepInductive == Inductive /\ [Next]_vars => Inductive'
<1> SUFFICES ASSUME Inductive, [Next]_vars PROVE Inductive'
  OBVIOUS
<1>1. CASE UNCHANGED vars \/ BuildTable \/ BuildPanics
  BY <1>1, NothingMoves DEF vars, adding, BuildTable, BuildPanics
<1>2. ASSUME NEW t \in Thread, Step(t) PROVE Inductive'
  BY <1>2, TakeJobStep, ForceFirstStep, ForceAgainStep, BuildPoolStep, SpawnInitStep, JoinInitStep,
     EnterStep, SplitStep, DoChunkStep, CollectStep, WakeStep DEF Step
<1> QED
  BY <1>1, <1>2 DEF Next

(* The stacks, the queue, the lock and the results of the chunks fit       *)
(* together after every step of every thread.                              *)
THEOREM ParallelInvariant == Spec => []Inductive
<1>1. Init => Inductive
  BY InitInductive
<1>2. Inductive /\ [Next]_vars => Inductive'
  BY StepInductive
<1> QED
  BY <1>1, <1>2, PTL DEF Spec

(* build_shared_committer: the thread that builds the committer has        *)
(* nothing on top of it, so no job that waits for the committer can keep   *)
(* its own thread from finishing it.                                       *)
THEOREM NothingIsOnTop == Spec => []NothingOnTop
<1>1. Inductive => NothingOnTop
  BY DEF Inductive, OneInitializer, NothingOnTop, Initializing
<1> QED
  BY <1>1, ParallelInvariant, PTL

(* add_commitment_deltas: whatever the workers run on top of each other,   *)
(* an update that has ended has the result of each chunk as if it had run  *)
(* alone; so what EachNodeOnce says of the parallel update is a matter of  *)
(* the sequential chunks.                                                  *)
THEOREM ChunksAsIfAlone == Spec => []AsIfAlone
<1>1. Inductive => AsIfAlone
  BY DEF Inductive, Chunked
<1> QED
  BY <1>1, ParallelInvariant, PTL
===============================================================================
