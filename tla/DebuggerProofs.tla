--------------------------- MODULE DebuggerProofs ---------------------------
(***************************************************************************)
(* The index of the breakpoints is sound in every session, whatever the    *)
(* program, the addresses and the bounds: each operation of the manager    *)
(* keeps it, and no command touches the breakpoints but through them.      *)
(*                                                                         *)
(* That ids are not used again is what makes add keep it: an entry cannot  *)
(* lead to the new breakpoint before the entry is made.                    *)
(*                                                                         *)
(* A command that stops at a breakpoint stops at a real one, and the       *)
(* history shows what the machine held before a cycle, unless check hid    *)
(* it.                                                                     *)
(*                                                                         *)
(* A session is a run of the machine of MicroCpu, so that what is proved   *)
(* of the machine holds behind the prompt; its registers' types carry over *)
(* to what the session shows.                                              *)
(***************************************************************************)
EXTENDS Debugger, MicroCpuProofs

\* The entries of the index lead to breakpoints, and ids are below the next one, so
\* that a new breakpoint is the newest.
IdsAreOld == nextId \in Nat \ {0} /\ \A id \in DOMAIN breakpoints : id \in Nat /\ id < nextId

IndexInv == IndexIsSound /\ IdsAreOld

-----------------------------------------------------------------------------
(* The operations of the manager *)

\* A new breakpoint takes over the entry of its address.
LEMMA AddKeeps ==
  ASSUME IndexInv, NEW a \in Addresses, add(a)
  PROVE  IndexInv'
<1>1. nextId \notin DOMAIN breakpoints
  BY DEF IndexInv, IdsAreOld
<1>2. DOMAIN breakpoints' = DOMAIN breakpoints \cup {nextId}
  BY DEF add, With
<1>3. \A id \in DOMAIN breakpoints : breakpoints'[id] = breakpoints[id]
  BY <1>1 DEF add, With
<1>4. breakpoints'[nextId].address = a
  BY DEF add, With
<1>5. DOMAIN index' = DOMAIN index \cup {a} /\ index'[a] = nextId
  BY DEF add, With
<1>6. \A b \in DOMAIN index \ {a} : index'[b] = index[b]
  BY DEF add, With
<1>7. nextId \in Nat /\ \A id \in DOMAIN breakpoints : id \in Nat /\ id < nextId
  BY DEF IndexInv, IdsAreOld
<1>8. IndexIsSound'
  BY <1>2, <1>3, <1>4, <1>5, <1>6, <1>7 DEF IndexInv, IndexIsSound
<1>9. IdsAreOld'
  BY <1>2 DEF IndexInv, IdsAreOld, add
<1> QED
  BY <1>8, <1>9 DEF IndexInv

\* The entry of the address of a removed breakpoint goes, whosever it is: no
\* other entry can lead to the removed one.
LEMMA RemoveKeeps ==
  ASSUME IndexInv, NEW id \in DOMAIN breakpoints, remove(id)
  PROVE  IndexInv'
<1> DEFINE a == breakpoints[id].address
<1>1. /\ DOMAIN breakpoints' = DOMAIN breakpoints \ {id}
      /\ \A other \in DOMAIN breakpoints \ {id} : breakpoints'[other] = breakpoints[other]
  BY DEF remove, Without
<1>2. /\ DOMAIN index' = DOMAIN index \ {a}
      /\ \A b \in DOMAIN index \ {a} : index'[b] = index[b]
  BY DEF remove, Without
<1>3. \A b \in DOMAIN index \ {a} : index[b] \in DOMAIN breakpoints \ {id}
  BY DEF IndexInv, IndexIsSound
<1>4. IndexIsSound'
  BY <1>1, <1>2, <1>3 DEF IndexInv, IndexIsSound
<1>5. IdsAreOld'
  BY <1>1 DEF IndexInv, IdsAreOld, remove
<1> QED
  BY <1>4, <1>5 DEF IndexInv

\* Enabling, disabling and counting a hit leave addresses and ids alone.
LEMMA SwitchKeeps ==
  ASSUME IndexInv, NEW id, NEW on, switch(id, on)
  PROVE  IndexInv'
<1>1. DOMAIN breakpoints' = DOMAIN breakpoints
  BY DEF switch
<1>2. \A other \in DOMAIN breakpoints :
        breakpoints'[other].address = breakpoints[other].address
  BY DEF switch
<1> QED
  BY <1>1, <1>2 DEF IndexInv, IndexIsSound, IdsAreOld, switch

LEMMA CountingKeeps ==
  ASSUME NEW a, NEW id \in DOMAIN breakpoints
  PROVE  /\ DOMAIN HitCounted(a) = DOMAIN breakpoints
         /\ HitCounted(a)[id].address = breakpoints[id].address
         /\ HitCounted(a)[id].enabled = breakpoints[id].enabled
BY DEF HitCounted

LEMMA CheckKeeps ==
  ASSUME IndexInv, NEW a, check(a)
  PROVE  IndexInv'
<1>1. DOMAIN breakpoints' = DOMAIN breakpoints
  BY DEF check, HitCounted
<1>2. \A other \in DOMAIN breakpoints :
        breakpoints'[other].address = breakpoints[other].address
  BY CountingKeeps DEF check
<1> QED
  BY <1>1, <1>2 DEF IndexInv, IndexIsSound, IdsAreOld, check

LEMMA ClearKeeps ==
  ASSUME IndexInv, clear_all
  PROVE  IndexInv'
BY DEF IndexInv, IndexIsSound, IdsAreOld, clear_all

-----------------------------------------------------------------------------
(* The commands *)

\* Every command goes through the manager or leaves the breakpoints alone.
LEMMA CommandsKeep ==
  ASSUME IndexInv, [DebuggerNext]_dbgVars
  PROVE  IndexInv'
<1> USE DEF bpVars
<1>0. (UNCHANGED bpVars) => IndexInv'
  BY DEF IndexInv, IndexIsSound, IdsAreOld
<1>1. CASE UNCHANGED dbgVars
  BY <1>0, <1>1 DEF dbgVars
<1>2. CASE Edit
  <2>1. ASSUME NEW a \in Addresses, do_break(a) PROVE IndexInv'
    BY <2>1, AddKeeps DEF do_break
  <2>2. ASSUME NEW id \in DOMAIN breakpoints, do_delete(id) PROVE IndexInv'
    BY <2>2, RemoveKeeps DEF do_delete
  <2>3. ASSUME NEW id \in DOMAIN breakpoints, DeleteRaises(id) PROVE IndexInv'
    BY <2>3, <1>0 DEF DeleteRaises
  <2>4. ASSUME NEW id \in DOMAIN breakpoints, NEW on \in BOOLEAN, Switch(id, on)
        PROVE  IndexInv'
    BY <2>4, SwitchKeeps DEF Switch
  <2>5. CASE DeleteAll
    BY <2>5, ClearKeeps DEF DeleteAll
  <2>6. CASE do_watch
    BY <2>6, <1>0 DEF do_watch
  <2> QED
    BY <1>2, <2>1, <2>2, <2>3, <2>4, <2>5, <2>6 DEF Edit
<1>3. CASE Drive
  <2>1. Drive => UNCHANGED bpVars
    BY DEF Drive, do_run, do_reset, do_tick, do_nexti, do_stepi, do_continue,
           do_check, StartLoop
  <2> QED
    BY <1>3, <2>1, <1>0
<1>4. CASE LoopStep
  <2>1. CASE EndLoop
    BY <2>1, <1>0 DEF EndLoop
  <2>2. CASE StartInstruction
    BY <2>2, <1>0 DEF StartInstruction
  <2>3. CASE Cycle
    <3>1. check(shown'.pc) \/ UNCHANGED bpVars
      BY <2>3 DEF Cycle
    <3> QED
      BY <3>1, <1>0, CheckKeeps
  <2>4. CASE CycleRaises
    BY <2>4, <1>0 DEF CycleRaises
  <2>5. CASE CheckCycle
    BY <2>5, <1>0 DEF CheckCycle
  <2>6. CASE CheckEnd
    BY <2>6, <1>0 DEF CheckEnd
  <2> QED
    BY <1>4, <2>1, <2>2, <2>3, <2>4, <2>5, <2>6 DEF LoopStep
<1> QED
  BY <1>1, <1>2, <1>3, <1>4 DEF DebuggerNext

\* In every session, whatever is added twice, deleted, hit and cleared, the index
\* leads only to listed breakpoints at their own addresses.
THEOREM IndexSound == DebuggerSpec => []IndexIsSound
<1>1. DebuggerInit => IndexInv
  BY DEF DebuggerInit, BpInit, IndexInv, IndexIsSound, IdsAreOld
<1>2. IndexInv /\ [DebuggerNext]_dbgVars => IndexInv'
  BY CommandsKeep
<1>3. IndexInv => IndexIsSound
  BY DEF IndexInv
<1> QED
  BY <1>1, <1>2, <1>3, PTL DEF DebuggerSpec

-----------------------------------------------------------------------------
(* What a stop reports *)

\* A report stands until the next command is typed, and commands are typed only
\* at the prompt: the machine is not clocked while it stands.
HitInv == hit # 0 => session = "prompt" /\ HitIsReal

\* The cycle that ends an instruction looks at the machine it just clocked.
LEMMA CycleReports ==
  ASSUME IndexInv, HitInv, Cycle
  PROVE  HitInv'
<1> DEFINE pc == shown'.pc
<1>1. session = "looping" /\ hit = 0
  BY DEF Cycle, Stepping, Looping, HitInv
<1>2. pc = Pair("PC")'
  <2>1. lastChunk' = Snapshot' /\ shown' = Cycled(shown, lastChunk')
    BY DEF Cycle, step_instruction
  <2>2. lastChunk'.pc = Pair("PC")'
    BY <2>1 DEF Snapshot
  <2>3. shown'.pc = lastChunk'.pc
    BY <2>1 DEF Cycled, Updated
  <2> QED
    BY <2>2, <2>3
<1>3. CASE hit' = hit
  BY <1>1, <1>3 DEF HitInv
<1>4. CASE hit' # hit
  <2>1. /\ Hit(pc) /\ hit' = index[pc] /\ session' = "prompt" /\ check(pc)
    BY <1>4 DEF Cycle
  <2>2. index[pc] \in DOMAIN breakpoints /\ breakpoints[index[pc]].enabled
    BY <2>1 DEF Hit
  <2>3. breakpoints[index[pc]].address = pc
    BY <2>1 DEF Hit, IndexInv, IndexIsSound
  <2>4. /\ DOMAIN breakpoints' = DOMAIN breakpoints
        /\ breakpoints'[index[pc]].enabled = breakpoints[index[pc]].enabled
        /\ breakpoints'[index[pc]].address = breakpoints[index[pc]].address
    BY <2>1, <2>2, CountingKeeps DEF check
  <2>5. HitIsReal'
    BY <1>2, <2>1, <2>2, <2>3, <2>4 DEF HitIsReal
  <2> QED
    BY <2>1, <2>5 DEF HitInv
<1> QED
  BY <1>3, <1>4

\* The other steps withdraw the report or leave all it speaks of alone.
LEMMA OthersReport ==
  ASSUME IndexInv, HitInv, [DebuggerNext]_dbgVars, ~Cycle
  PROVE  HitInv'
<1>1. CASE UNCHANGED dbgVars
  BY <1>1 DEF dbgVars, machine, vars, bpVars, HitInv, HitIsReal, Pair
<1>2. CASE Edit \/ Drive
  <2>1. Edit => hit' = 0
    BY DEF Edit, do_break, do_delete, DeleteRaises, Switch, DeleteAll, do_watch, Command
  <2>2. Drive => hit' = 0
    BY DEF Drive, do_run, do_reset, do_tick, do_nexti, do_stepi, do_continue,
           do_check, StartLoop, Command
  <2> QED
    BY <1>2, <2>1, <2>2 DEF HitInv
<1>3. CASE LoopStep
  <2>1. Looping
    BY <1>3 DEF LoopStep, EndLoop, StartInstruction, Cycle, CycleRaises, CheckCycle,
                CheckEnd, Stepping
  <2>2. hit = 0
    BY <2>1 DEF Looping, HitInv
  <2>3. hit' = hit
    BY <1>3 DEF LoopStep, EndLoop, StartInstruction, CycleRaises, CheckCycle, CheckEnd
  <2> QED
    BY <2>2, <2>3 DEF HitInv
<1> QED
  BY <1>1, <1>2, <1>3 DEF DebuggerNext

\* For every program and session: what a command reports as hit is listed and
\* enabled, and the machine stands at it until the next command.
THEOREM HitsAreReal == DebuggerSpec => []HitIsReal
<1>1. DebuggerInit => IndexInv /\ HitInv
  BY DEF DebuggerInit, BpInit, IndexInv, IndexIsSound, IdsAreOld, HitInv
<1>2. IndexInv /\ HitInv /\ [DebuggerNext]_dbgVars => (IndexInv /\ HitInv)'
  BY CommandsKeep, CycleReports, OthersReport
<1>3. HitInv => HitIsReal
  BY DEF HitInv, HitIsReal
<1> QED
  BY <1>1, <1>2, <1>3, PTL DEF DebuggerSpec

-----------------------------------------------------------------------------
(* The history *)

\* The states of the history carry the numbers of the cycles up to the one shown.
Numbered ==
  /\ Len(history) <= MaxHistory
  /\ session # "raised" =>
       \A n \in 1..Len(history) :
         history[n].cycle = shown.cycle - (Len(history) - n + 1)

\* The history is a sequence of states that were shown; the set they come from
\* grows as the session goes on.
HistoryInv ==
  /\ shown.cycle \in Nat
  /\ \E S : history \in Seq(S) /\ shown \in S
  /\ Numbered

\* A step that neither adds to the history nor counts a cycle.
LEMMA UncountedKeeps ==
  ASSUME HistoryInv, session # "raised",
         history' = history, shown'.cycle = shown.cycle
  PROVE  HistoryInv'
<1>1. \E S : history' \in Seq(S) /\ shown' \in S
  <2>1. PICK S : history \in Seq(S) /\ shown \in S
    BY DEF HistoryInv
  <2>2. history \in Seq(S \cup {shown'})
    BY <2>1
  <2> QED
    BY <2>2
<1> QED
  BY <1>1 DEF HistoryInv, Numbered

\* What Remembered makes of the history: its last states and the one shown.
LEMMA RememberedLasts ==
  ASSUME HistoryInv, session # "raised"
  PROVE  /\ \E S : Remembered \in Seq(S) /\ shown \in S
         /\ Len(Remembered) <= MaxHistory
         /\ \A n \in 1..Len(Remembered) :
              Remembered[n].cycle = shown.cycle - (Len(Remembered) - n)
<1>1. PICK S : history \in Seq(S) /\ shown \in S
  BY DEF HistoryInv
<1>2. Len(history) \in Nat /\ Len(history) <= MaxHistory /\ MaxHistory \in Nat \ {0}
  BY <1>1, DebuggerAssumption DEF HistoryInv, Numbered
<1>3. \A n \in 1..Len(history) : history[n].cycle = shown.cycle - (Len(history) - n + 1)
  BY DEF HistoryInv, Numbered
<1> DEFINE kept == IF Len(history) >= MaxHistory THEN Tail(history) ELSE history
<1>4. /\ kept \in Seq(S)
      /\ Len(kept) \in Nat /\ Len(kept) < MaxHistory
      /\ \A n \in 1..Len(kept) : kept[n].cycle = shown.cycle - (Len(kept) - n + 1)
  <2>1. CASE Len(history) >= MaxHistory
    <3>1. history # << >>
      BY <1>1, <1>2, <2>1
    <3>2. /\ Tail(history) \in Seq(S) /\ Len(Tail(history)) = Len(history) - 1
          /\ \A n \in 1..(Len(history) - 1) : Tail(history)[n] = history[n + 1]
      BY <1>1, <3>1
    <3>3. \A n \in 1..(Len(history) - 1) :
            history[n + 1].cycle = shown.cycle - (Len(history) - 1 - n + 1)
      BY <1>2, <1>3 DEF HistoryInv
    <3> QED
      BY <1>2, <2>1, <3>2, <3>3
  <2>2. CASE ~(Len(history) >= MaxHistory)
    BY <1>1, <1>2, <1>3, <2>2
  <2> QED
    BY <2>1, <2>2
<1>5. Remembered = Append(kept, shown)
  BY DEF Remembered, Kept
<1> HIDE DEF kept
<1>6. /\ Remembered \in Seq(S) /\ Len(Remembered) = Len(kept) + 1
      /\ \A n \in 1..Len(kept) : Remembered[n] = kept[n]
      /\ Remembered[Len(kept) + 1] = shown
  BY <1>1, <1>4, <1>5
<1>7. Len(Remembered) <= MaxHistory
  BY <1>2, <1>4, <1>6
<1>8. ASSUME NEW n \in 1..Len(Remembered)
      PROVE  Remembered[n].cycle = shown.cycle - (Len(Remembered) - n)
  <2>1. shown.cycle \in Nat
    BY DEF HistoryInv
  <2>2. CASE n = Len(kept) + 1
    BY <1>4, <1>6, <2>1, <2>2
  <2>3. CASE n # Len(kept) + 1
    <3>1. n \in 1..Len(kept)
      BY <1>4, <1>6, <2>3
    <3> QED
      BY <1>4, <1>6, <2>1, <3>1
  <2> QED
    BY <2>2, <2>3
<1> QED
  BY <1>1, <1>6, <1>7, <1>8

\* A cycle of the machine adds the state before it and counts itself.
LEMMA CountedKeeps ==
  ASSUME HistoryInv, session # "raised",
         history' = Remembered, shown'.cycle = shown.cycle + 1
  PROVE  HistoryInv'
<1>1. PICK S : Remembered \in Seq(S) /\ shown \in S
  BY RememberedLasts
<1>2. Remembered \in Seq(S \cup {shown'})
  BY <1>1
<1>3. shown.cycle \in Nat /\ Len(Remembered) \in Nat
  BY <1>1 DEF HistoryInv
<1>4. \A n \in 1..Len(Remembered) :
        Remembered[n].cycle = shown'.cycle - (Len(Remembered) - n + 1)
  <2>1. \A n \in 1..Len(Remembered) :
          Remembered[n].cycle = shown.cycle - (Len(Remembered) - n)
    BY RememberedLasts
  <2> QED
    BY <1>3, <2>1
<1> QED
  BY <1>2, <1>3, <1>4, RememberedLasts DEF HistoryInv, Numbered

\* A cycle that raises ends the session, with the history as it may be.
LEMMA RaisingKeeps ==
  ASSUME HistoryInv, session # "raised", session' = "raised", shown' = shown,
         history' = Remembered \/ history' = history
  PROVE  HistoryInv'
<1>1. CASE history' = Remembered
  BY <1>1, RememberedLasts DEF HistoryInv, Numbered
<1>2. CASE history' = history
  BY <1>2, UncountedKeeps
<1> QED
  BY <1>1, <1>2

LEMMA HistoryKept ==
  ASSUME HistoryInv, [DebuggerNext]_dbgVars
  PROVE  HistoryInv'
<1>1. CASE UNCHANGED dbgVars
  BY <1>1 DEF dbgVars, HistoryInv, Numbered
<1>2. CASE Edit
  <2>1. session # "raised" /\ history' = history /\ shown' = shown
    BY <1>2 DEF Edit, do_break, do_delete, DeleteRaises, Switch, DeleteAll, do_watch,
                Command, MachineAlone
  <2> QED
    BY <2>1, UncountedKeeps
<1>3. CASE Drive
  <2>1. session # "raised"
    BY <1>3 DEF Drive, do_run, do_reset, do_tick, do_nexti, do_stepi, do_continue,
                do_check, StartLoop, Command
  <2>2. initialize => shown'.cycle = shown.cycle
    BY DEF initialize, Updated
  <2>3. CASE do_reset
    <3>1. history' = << >> /\ shown' = CPUState
      BY <2>3 DEF do_reset
    <3>2. history' \in Seq({CPUState}) /\ Len(history') = 0
      BY <3>1
    <3>3. MaxHistory \in Nat
      BY DebuggerAssumption
    <3>4. shown' \in {CPUState} /\ shown'.cycle = 0
      BY <3>1 DEF CPUState
    <3>5. Numbered'
      BY <3>2, <3>3 DEF Numbered
    <3>6. \E S : history' \in Seq(S) /\ shown' \in S
      <4> WITNESS {CPUState}
      <4> QED
        BY <3>2, <3>4
    <3> QED
      BY <3>4, <3>5, <3>6 DEF HistoryInv
  <2>4. CASE do_run \/ do_tick
    BY <2>1, <2>2, <2>4, UncountedKeeps DEF do_run, do_tick
  <2>5. CASE do_nexti \/ do_stepi \/ do_continue \/ do_check
    BY <2>1, <2>2, <2>5, UncountedKeeps
    DEF do_nexti, do_stepi, do_continue, do_check, StartLoop, EnsureInitialized
  <2> QED
    BY <1>3, <2>3, <2>4, <2>5 DEF Drive
<1>4. CASE LoopStep
  <2>1. session # "raised"
    BY <1>4 DEF LoopStep, EndLoop, StartInstruction, Cycle, CycleRaises, CheckCycle,
                CheckEnd, Stepping, Looping
  <2>2. CASE EndLoop \/ StartInstruction \/ CheckCycle \/ CheckEnd
    <3>1. history' = history /\ shown'.cycle = shown.cycle
      BY <2>2 DEF EndLoop, StartInstruction, CheckCycle, CheckEnd, MachineAlone, Updated
    <3> QED
      BY <2>1, <3>1, UncountedKeeps
  <2>3. CASE Cycle
    <3>1. history' = Remembered /\ shown' = Cycled(shown, lastChunk')
      BY <2>3 DEF Cycle, step_instruction
    <3>2. shown'.cycle = shown.cycle + 1
      BY <3>1 DEF Cycled, Updated
    <3> QED
      BY <2>1, <3>1, <3>2, CountedKeeps
  <2>4. CASE CycleRaises
    BY <2>1, <2>4, RaisingKeeps DEF CycleRaises
  <2> QED
    BY <1>4, <2>2, <2>3, <2>4 DEF LoopStep
<1> QED
  BY <1>1, <1>2, <1>3, <1>4 DEF DebuggerNext

-----------------------------------------------------------------------------
(* What the history says *)

\* Between two steps the state shown and the last chunk are those of the machine,
\* as long as it was started and check has not clocked it since.
Looked ==
  /\ session = "looping" => initialized
  /\ session # "raised" /\ initialized /\ ~unseen =>
       /\ shown.pc = Pair("PC") /\ shown.instruction = reg["IR"]
       /\ lastChunk.pc = Pair("PC") /\ lastChunk.instruction = reg["IR"]

\* What a state of the history and what the machine held have to do with each other.
Agree(state, held) ==
  ~held.unseen => state.pc = held.pc /\ state.instruction = held.instruction

Paired(states, held) ==
  /\ \E S : states \in Seq(S)
  /\ \E S : held \in Seq(S)
  /\ Len(held) = Len(states)
  /\ \A n \in 1..Len(states) : Agree(states[n], held[n])

WitnessInv == Looked /\ Paired(history, witnessed)

\* A look at the machine shows what it holds.
LEMMA LookShows ==
  /\ Snapshot.pc = Pair("PC") /\ Snapshot.instruction = reg["IR"]
  /\ \A state, chunk : /\ Updated(state, chunk).pc = chunk.pc
                       /\ Updated(state, chunk).instruction = chunk.instruction
                       /\ Cycled(state, chunk).pc = chunk.pc
                       /\ Cycled(state, chunk).instruction = chunk.instruction
BY DEF Snapshot, Updated, Cycled

\* The pairs that are kept at the limit are those there were, and a pair that agrees
\* may be added.
LEMMA PairAdded ==
  ASSUME NEW states, NEW held, NEW state, NEW seen, Paired(states, held), Agree(state, seen)
  PROVE  Paired(Append(Kept(states), state), Append(Kept(held), seen))
<1>1. PICK S, T : states \in Seq(S) /\ held \in Seq(T)
  BY DEF Paired
<1>2. Len(states) \in Nat /\ Len(held) = Len(states)
  BY <1>1 DEF Paired
<1>3. \A n \in 1..Len(states) : Agree(states[n], held[n])
  BY DEF Paired
<1>. DEFINE h == Kept(states)
            w == Kept(held)
<1>4. /\ h \in Seq(S) /\ w \in Seq(T)
      /\ Len(h) \in Nat /\ Len(w) = Len(h)
      /\ \A n \in 1..Len(h) : Agree(h[n], w[n])
  <2>1. CASE Len(states) >= MaxHistory
    <3>1. MaxHistory \in Nat \ {0}
      BY DebuggerAssumption
    <3>2. h = Tail(states) /\ w = Tail(held)
      BY <1>2, <2>1 DEF Kept
    <3>3. states # << >> /\ held # << >>
      BY <1>1, <1>2, <2>1, <3>1
    <3>4. /\ h \in Seq(S) /\ w \in Seq(T)
          /\ Len(h) = Len(states) - 1 /\ Len(w) = Len(states) - 1
          /\ \A n \in 1..(Len(states) - 1) : h[n] = states[n + 1] /\ w[n] = held[n + 1]
      BY <1>1, <1>2, <3>2, <3>3
    <3>5. \A n \in 1..(Len(states) - 1) : n + 1 \in 1..Len(states)
      BY <1>2
    <3>6. Len(states) - 1 \in Nat
      BY <1>2, <2>1, <3>1
    <3>7. \A n \in 1..(Len(states) - 1) : Agree(h[n], w[n])
      BY <1>3, <3>4, <3>5, Zenon
    <3>. QED
      BY <3>4, <3>6, <3>7
  <2>2. CASE ~(Len(states) >= MaxHistory)
    <3>1. h = states /\ w = held
      BY <1>2, <2>2 DEF Kept
    <3>. QED
      BY <1>1, <1>2, <1>3, <3>1
  <2>. QED
    BY <2>1, <2>2
<1>. HIDE DEF h, w
<1>5. /\ Append(h, state) \in Seq(S \cup {state}) /\ Append(w, seen) \in Seq(T \cup {seen})
      /\ Len(Append(h, state)) = Len(h) + 1 /\ Len(Append(w, seen)) = Len(h) + 1
      /\ \A n \in 1..Len(h) : Append(h, state)[n] = h[n] /\ Append(w, seen)[n] = w[n]
      /\ Append(h, state)[Len(h) + 1] = state /\ Append(w, seen)[Len(h) + 1] = seen
  <2>1. h \in Seq(S \cup {state}) /\ w \in Seq(T \cup {seen})
    BY <1>4
  <2>. QED
    BY <1>4, <2>1
<1>6. ASSUME NEW n \in 1..(Len(h) + 1)
      PROVE  Agree(Append(h, state)[n], Append(w, seen)[n])
  <2>1. CASE n = Len(h) + 1
    BY <1>5, <2>1, Zenon
  <2>2. CASE n # Len(h) + 1
    <3>1. n \in 1..Len(h)
      BY <1>4, <2>2
    <3>. QED
      BY <1>4, <1>5, <3>1, Zenon
  <2>. QED
    BY <2>1, <2>2
<1>. QED
  BY <1>5, <1>6 DEF Paired, h, w

\* A cycle in a loop adds a state that agrees: the machine was looked at since it was
\* clocked, or it is marked as unseen.
LEMMA CyclePairs ==
  ASSUME WitnessInv, session = "looping"
  PROVE  Paired(Remembered, Witnessed)
<1>. DEFINE seen == [pc |-> Pair("PC"), instruction |-> reg["IR"], unseen |-> unseen]
<1>1. Agree(shown, seen)
  BY DEF Agree, WitnessInv, Looked
<1>2. Paired(history, witnessed)
  BY DEF WitnessInv
<1>. QED
  BY <1>1, <1>2, PairAdded DEF Remembered, Witnessed

\* The machine is looked at when it is started and after each of its cycles.
LEMMA LooksAgree ==
  /\ initialize => /\ initialized' /\ shown'.pc = Pair("PC")'
                   /\ shown'.instruction = reg["IR"]' /\ lastChunk'.pc = Pair("PC")'
                   /\ lastChunk'.instruction = reg["IR"]'
  /\ step_instruction => /\ shown'.pc = Pair("PC")' /\ shown'.instruction = reg["IR"]'
                         /\ lastChunk'.pc = Pair("PC")'
                         /\ lastChunk'.instruction = reg["IR"]'
<1>1. Snapshot'.pc = Pair("PC")' /\ Snapshot'.instruction = reg["IR"]'
  BY DEF Snapshot
<1>. QED
  BY <1>1, LookShows DEF initialize, step_instruction

\* A step that leaves the machine, the state shown and the chunk alone.
LEMMA IdleLooks ==
  ASSUME Looked, UNCHANGED <<machine, initialized, shown, lastChunk, unseen>>,
         session # "raised", session' = "looping" => initialized
  PROVE  Looked'
BY DEF Looked, machine, vars, Pair

\* Every step keeps what the history says.
LEMMA WitnessKept ==
  ASSUME WitnessInv, [DebuggerNext]_dbgVars
  PROVE  WitnessInv'
<1>. USE DEF WitnessInv
<1>0. (UNCHANGED <<history, witnessed>>) => Paired(history, witnessed)'
  BY DEF Paired, Agree
<1>1. CASE UNCHANGED dbgVars
  <2>1. Looked'
    BY <1>1 DEF dbgVars, machine, vars, Looked, Pair
  <2>. QED
    BY <1>0, <1>1, <2>1 DEF dbgVars
<1>2. CASE Edit
  <2>1. /\ session = "prompt" /\ session' \in {"prompt", "raised"}
        /\ UNCHANGED <<machine, initialized, shown, lastChunk, unseen, history, witnessed>>
    BY <1>2 DEF Edit, do_break, do_delete, DeleteRaises, Switch, DeleteAll, do_watch,
                Command, MachineAlone, AtPrompt
  <2>. QED
    BY <1>0, <2>1, IdleLooks
<1>3. CASE Drive
  <2>1. session = "prompt"
    BY <1>3 DEF Drive, do_run, do_reset, do_tick, do_nexti, do_stepi, do_continue,
                do_check, StartLoop, Command
  <2>2. CASE do_run
    <3>1. initialize /\ UNCHANGED <<history, witnessed>> /\ session' = session
      BY <2>2 DEF do_run, AtPrompt
    <3>. QED
      BY <1>0, <2>1, <3>1, LooksAgree DEF Looked
  <2>3. CASE do_reset
    <3>1. /\ initialized' = FALSE /\ history' = << >> /\ witnessed' = << >>
          /\ session' = session
      BY <2>3 DEF do_reset, AtPrompt
    <3>2. << >> \in Seq({}) /\ Len(<< >>) = 0
      OBVIOUS
    <3>3. Paired(history, witnessed)'
      BY <3>1, <3>2 DEF Paired
    <3>. QED
      BY <2>1, <3>1, <3>3 DEF Looked
  <2>4. CASE do_tick
    <3>1. UNCHANGED <<history, witnessed>> /\ session' = session
      BY <2>4 DEF do_tick, AtPrompt
    <3>2. CASE initialized
      <4>1. UNCHANGED <<machine, initialized, shown, unseen>> /\ lastChunk' = Snapshot
        BY <2>4, <3>2 DEF do_tick
      <4>. QED
        BY <1>0, <2>1, <3>1, <4>1, LookShows DEF Looked, machine, vars, Pair
    <3>3. CASE ~initialized
      BY <1>0, <2>1, <2>4, <3>1, <3>3, LooksAgree DEF Looked, do_tick
    <3>. QED
      BY <3>2, <3>3
  <2>5. ASSUME NEW command, NEW count, StartLoop(command, count)
        PROVE  WitnessInv'
    <3>1. /\ UNCHANGED <<history, witnessed>> /\ session' = "looping"
          /\ EnsureInitialized
      BY <2>5 DEF StartLoop
    <3>2. CASE initialized
      <4>1. UNCHANGED <<machine, initialized, shown, lastChunk, unseen>>
        BY <3>1, <3>2 DEF EnsureInitialized
      <4>. QED
        BY <1>0, <2>1, <3>1, <3>2, <4>1, IdleLooks
    <3>3. CASE ~initialized
      BY <1>0, <3>1, <3>3, LooksAgree DEF Looked, EnsureInitialized
    <3>. QED
      BY <3>2, <3>3
  <2>. QED
    BY <1>3, <2>2, <2>3, <2>4, <2>5 DEF Drive, do_nexti, do_stepi, do_continue, do_check
<1>4. CASE LoopStep
  <2>1. session = "looping" /\ initialized
    BY <1>4 DEF LoopStep, EndLoop, StartInstruction, Cycle, CycleRaises, CheckCycle,
                CheckEnd, Stepping, Looping, Looked
  <2>2. CASE EndLoop \/ StartInstruction
    <3>1. UNCHANGED <<machine, initialized, shown, lastChunk, unseen, history, witnessed>>
      BY <2>2 DEF EndLoop, StartInstruction, MachineAlone
    <3>. QED
      BY <1>0, <2>1, <3>1, IdleLooks
  <2>3. CASE Cycle
    <3>1. /\ step_instruction /\ history' = Remembered /\ witnessed' = Witnessed
          /\ initialized' = initialized
      BY <2>3 DEF Cycle, step_instruction
    <3>2. Paired(history, witnessed)'
      BY <2>1, <3>1, CyclePairs
    <3>. QED
      BY <2>1, <3>1, <3>2, LooksAgree DEF Looked
  <2>4. CASE CycleRaises
    <3>1. /\ session' = "raised"
          /\ \/ history' = Remembered /\ witnessed' = Witnessed
             \/ UNCHANGED <<history, witnessed>>
      BY <2>4 DEF CycleRaises
    <3>2. Paired(history, witnessed)'
      BY <1>0, <2>1, <3>1, CyclePairs
    <3>. QED
      BY <3>1, <3>2 DEF Looked
  <2>5. CASE CheckCycle
    <3>1. unseen' = TRUE /\ UNCHANGED <<history, witnessed, initialized, session>>
      BY <2>5 DEF CheckCycle
    <3>. QED
      BY <1>0, <2>1, <3>1 DEF Looked
  <2>6. CASE CheckEnd
    <3>1. /\ UNCHANGED <<machine, initialized, lastChunk, unseen, history, witnessed>>
          /\ shown' = Updated(shown, lastChunk) /\ session' = "prompt"
      BY <2>6 DEF CheckEnd
    <3>. QED
      BY <1>0, <2>1, <3>1, LookShows DEF Looked, machine, vars, Pair
  <2>. QED
    BY <1>4, <2>2, <2>3, <2>4, <2>5, <2>6 DEF LoopStep
<1>. QED
  BY <1>1, <1>2, <1>3, <1>4 DEF DebuggerNext

\* For every program, limit and session: a cycle in the history is shown with what
\* the machine held before it, but for the first one after check, and the cycles are
\* numbered up to the one shown, at most MaxHistory of them.
THEOREM HistoryTellsTheMachine == DebuggerSpec => []HistoryIsFaithful
<1>1. DebuggerInit => HistoryInv
  <2>1. MaxHistory \in Nat
    BY DebuggerAssumption
  <2>2. << >> \in Seq({CPUState}) /\ Len(<< >>) = 0
    OBVIOUS
  <2> SUFFICES ASSUME DebuggerInit
               PROVE  HistoryInv
    OBVIOUS
  <2>3. history = << >> /\ shown \in {CPUState} /\ shown.cycle = 0
    BY DEF DebuggerInit, CPUState
  <2>4. Numbered
    BY <2>1, <2>2, <2>3 DEF Numbered
  <2>5. \E S : history \in Seq(S) /\ shown \in S
    <3> WITNESS {CPUState}
    <3> QED
      BY <2>2, <2>3
  <2> QED
    BY <2>3, <2>4, <2>5 DEF HistoryInv
<1>2. DebuggerInit => WitnessInv
  <2>1. << >> \in Seq({}) /\ Len(<< >>) = 0
    OBVIOUS
  <2>2. DebuggerInit => Paired(history, witnessed)
    BY <2>1 DEF DebuggerInit, Paired
  <2>3. DebuggerInit => Looked
    BY DEF DebuggerInit, Looked
  <2> QED
    BY <2>2, <2>3 DEF WitnessInv
<1>3. HistoryInv /\ WitnessInv /\ [DebuggerNext]_dbgVars => (HistoryInv /\ WitnessInv)'
  BY HistoryKept, WitnessKept
<1>4. HistoryInv /\ WitnessInv => HistoryIsFaithful
  BY DEF HistoryInv, Numbered, WitnessInv, Paired, Agree, HistoryIsFaithful
<1> QED
  BY <1>1, <1>2, <1>3, <1>4, PTL DEF DebuggerSpec

-----------------------------------------------------------------------------
(* The machine behind the session *)

\* Whatever is typed, the machine takes only steps of its own: a cycle, a fault or
\* a reset, and a prompt leaves it alone.
LEMMA MachineSteps ==
  ASSUME [DebuggerNext]_dbgVars
  PROVE  [Next]_vars
<1>1. Clock => [Next]_vars
  BY DEF Clock, Next, machine, vars
<1>2. initialize => [Next]_vars
  BY DEF initialize, Next
<1>3. MachineAlone => [Next]_vars
  BY DEF MachineAlone, machine
<1>4. (UNCHANGED machine) => [Next]_vars
  BY DEF machine
<1>5. CASE UNCHANGED dbgVars
  <2>1. UNCHANGED machine
    BY <1>5 DEF dbgVars
  <2>. QED
    BY <1>4, <2>1
<1>6. CASE Edit
  <2>1. MachineAlone
    BY <1>6 DEF Edit, do_break, do_delete, DeleteRaises, Switch, DeleteAll, do_watch
  <2>. QED
    BY <1>3, <2>1
<1>7. CASE Drive
  <2>1. do_run => initialize
    BY DEF do_run
  <2>2. do_reset => UNCHANGED machine
    BY DEF do_reset
  <2>3. do_tick => initialize \/ UNCHANGED machine
    BY DEF do_tick
  <2>4. ASSUME NEW command, NEW count, StartLoop(command, count)
        PROVE  initialize \/ UNCHANGED machine
    BY <2>4 DEF StartLoop, EnsureInitialized
  <2>5. initialize \/ UNCHANGED machine
    BY <1>7, <2>1, <2>2, <2>3, <2>4 DEF Drive, do_nexti, do_stepi, do_continue, do_check
  <2>. QED
    BY <1>2, <1>4, <2>5
<1>8. CASE LoopStep
  <2>1. (EndLoop \/ StartInstruction) => MachineAlone
    BY DEF EndLoop, StartInstruction
  <2>2. (Cycle \/ CheckCycle) => Clock
    BY DEF Cycle, step_instruction, CheckCycle
  <2>3. CycleRaises => Next
    BY DEF CycleRaises, Next
  <2>4. CheckEnd => UNCHANGED machine
    BY DEF CheckEnd
  <2>. QED
    BY <1>1, <1>3, <1>4, <1>8, <2>1, <2>2, <2>3, <2>4 DEF LoopStep
<1>. QED
  BY <1>5, <1>6, <1>7, <1>8 DEF DebuggerNext

\* The debugger implements the machine: every session is a run of MicroCpu, which
\* the commands start, clock and reset but never write to.
THEOREM SessionsRunTheMachine == DebuggerSpec => Spec
<1>1. DebuggerInit => Init
  BY DEF DebuggerInit
<1>2. [DebuggerNext]_dbgVars => [Next]_vars
  BY MachineSteps
<1>. QED
  BY <1>1, <1>2, PTL DEF DebuggerSpec, Spec

-----------------------------------------------------------------------------
(* Types *)

\* What a look at the machine shows: an address, and whether it has halted.
LookFits == Snapshot.pc \in Address /\ Snapshot.halted \in BOOLEAN

\* The PC is an address and the halt line a level, in a cell of the store or beyond.
LEMMA LookType == TypeOK => LookFits
<1>. SUFFICES ASSUME TypeOK PROVE LookFits
  OBVIOUS
<1>1. Snapshot.pc = Pair("PC") /\ Snapshot.halted = Halted
  BY DEF Snapshot
<1>2. Pair("PC") \in Address
  <2>. DEFINE pc == "PC"
  <2>1. pc \in WordRegisters
    BY DEF WordRegisters
  <2>. HIDE DEF pc
  <2>2. Pair(pc) \in Int /\ 0 <= Pair(pc) /\ Pair(pc) < 65536
    BY <2>1, PairType
  <2>3. Pair(pc) % 65536 = Pair(pc)
    BY <2>2
  <2>4. \A n \in Int : n % 65536 \in Address
    BY DEF Address
  <2>5. Pair(pc) \in Address
    BY <2>2, <2>3, <2>4
  <2>. QED
    BY <2>5 DEF pc
<1>3. Halted \in BOOLEAN
  <2>. DEFINE m == Microcode(Current, Context)
  <2>1. DefaultCode.halt \in BOOLEAN
    BY DEF DefaultCode, Idle
  <2>2. CASE step < Len(m)
    <3>1. Current \in Instructions /\ Context \in Contexts /\ step \in 0..15
      <4>1. step \in 0..15
        BY DEF TypeOK, MaxSteps
      <4>2. m # << >>
        BY <2>2, <4>1
      <4>. QED
        BY <4>1, <4>2, CurrentType, UnassignedHasNoCode
    <3>2. m \in Seq(ControlWord)
      BY <3>1, MicrocodeLength
    <3>. HIDE DEF m
    <3>3. m[step + 1] \in ControlWord
      BY <2>2, <3>1, <3>2
    <3>4. Word = m[step + 1]
      BY <2>2 DEF Word, Cell, m
    <3>. QED
      BY <3>3, <3>4 DEF Halted, ControlWord
  <2>3. CASE ~(step < Len(m))
    <3>1. Word = DefaultCode
      BY <2>3 DEF Word, Cell
    <3>. QED
      BY <2>1, <3>1 DEF Halted
  <2>. QED
    BY <2>2, <2>3
<1>. QED
  BY <1>1, <1>2, <1>3 DEF LookFits


\* The operations of the manager keep breakpoints, ids and entries in their sets,
\* and no id is given back.
BpKept == BpTypeOK' /\ nextId <= nextId' /\ nextId' \in Nat

\* Every operation of the manager does.
LEMMA ManagerTypes ==
  ASSUME BpTypeOK
  PROVE  /\ (UNCHANGED bpVars) => BpKept
         /\ \A a \in Addresses : add(a) => BpKept
         /\ \A id : remove(id) => BpKept
         /\ \A id : \A on \in BOOLEAN : switch(id, on) => BpKept
         /\ \A a : check(a) => BpKept
         /\ clear_all => BpKept
<1>. USE DEF BpKept
<1>0. /\ nextId \in Nat \ {0} /\ DOMAIN index \subseteq Addresses
      /\ DOMAIN breakpoints \subseteq 1..(nextId - 1)
      /\ \A id \in DOMAIN breakpoints : breakpoints[id] \in Breakpoint
      /\ breakpoints = [id \in DOMAIN breakpoints |-> breakpoints[id]]
  BY DEF BpTypeOK
<1>1. (UNCHANGED bpVars) => BpKept
  BY <1>0 DEF BpTypeOK, bpVars
<1>2. ASSUME NEW a \in Addresses, add(a) PROVE BpKept
  <2>1. /\ breakpoints' = [id \in DOMAIN breakpoints \cup {nextId} |->
                IF id = nextId THEN [address |-> a, enabled |-> TRUE, hit_count |-> 0]
                               ELSE breakpoints[id]]
        /\ nextId' = nextId + 1 /\ DOMAIN index' = DOMAIN index \cup {a}
    BY <1>2 DEF add, With
  <2>2. [address |-> a, enabled |-> TRUE, hit_count |-> 0] \in Breakpoint
    BY DEF Breakpoint
  <2>3. breakpoints' \in [DOMAIN breakpoints' -> Breakpoint]
    BY <1>0, <2>1, <2>2
  <2>4. DOMAIN breakpoints' \subseteq 1..(nextId' - 1)
    BY <1>0, <2>1
  <2>5. nextId' \in Nat \ {0} /\ nextId <= nextId' /\ DOMAIN index' \subseteq Addresses
    BY <1>0, <2>1
  <2>. QED
    BY <2>3, <2>4, <2>5, Zenon DEF BpTypeOK
<1>3. ASSUME NEW id, remove(id) PROVE BpKept
  <2>1. /\ breakpoints' = [x \in DOMAIN breakpoints \ {id} |-> breakpoints[x]]
        /\ nextId' = nextId /\ DOMAIN index' \subseteq DOMAIN index
    BY <1>3 DEF remove, Without
  <2>. QED
    BY <1>0, <2>1 DEF BpTypeOK
<1>4. ASSUME NEW id, NEW on \in BOOLEAN, switch(id, on) PROVE BpKept
  <2>1. /\ breakpoints' = [breakpoints EXCEPT ![id].enabled = on]
        /\ nextId' = nextId /\ index' = index /\ id \in DOMAIN breakpoints
    BY <1>4 DEF switch
  <2>2. [breakpoints[id] EXCEPT !.enabled = on] \in Breakpoint
    BY <1>0, <2>1 DEF Breakpoint
  <2>3. breakpoints' \in [DOMAIN breakpoints -> Breakpoint]
    BY <1>0, <2>1, <2>2
  <2>. QED
    BY <1>0, <2>1, <2>3 DEF BpTypeOK
<1>5. ASSUME NEW a, check(a) PROVE BpKept
  <2>1. breakpoints' = HitCounted(a) /\ nextId' = nextId /\ index' = index
    BY <1>5 DEF check
  <2>2. CASE Hit(a)
    <3>. DEFINE id == index[a]
    <3>1. id \in DOMAIN breakpoints
      BY <2>2 DEF Hit
    <3>2. breakpoints' = [breakpoints EXCEPT ![id].hit_count = @ + 1]
      BY <2>1, <2>2 DEF HitCounted
    <3>. HIDE DEF id
    <3>3. [breakpoints[id] EXCEPT !.hit_count = @ + 1] \in Breakpoint
      BY <1>0, <3>1 DEF Breakpoint
    <3>4. breakpoints' \in [DOMAIN breakpoints -> Breakpoint]
      BY <1>0, <3>1, <3>2, <3>3
    <3>. QED
      BY <1>0, <2>1, <3>4 DEF BpTypeOK
  <2>3. CASE ~Hit(a)
    BY <1>0, <2>1, <2>3 DEF HitCounted, BpTypeOK
  <2>. QED
    BY <2>2, <2>3
<1>6. clear_all => BpKept
  BY <1>0 DEF clear_all, BpTypeOK
<1>. QED
  BY <1>1, <1>2, <1>3, <1>4, <1>5, <1>6

\* The record of the loop: inside an instruction there is one left to count and a
\* limit of cycles; check never is inside one.
LoopInv ==
  /\ {"command", "inside", "left"} \subseteq DOMAIN loop
  /\ loop.inside \in BOOLEAN /\ loop.left \in Nat
  /\ loop.inside => /\ loop.command # "check"
                    /\ loop.left # 0
                    /\ "cycles" \in DOMAIN loop /\ loop.cycles \in 1..MaxCycles

\* What is shown, and the chunk it may be taken from later.
ShownInv ==
  /\ shown.cycle \in Nat /\ shown.pc \in Address /\ shown.halted \in BOOLEAN
  /\ lastChunk.pc \in Address /\ lastChunk.halted \in BOOLEAN

\* The invariant of the session: the types of the machine, of the manager and of
\* the loop belong together, since each of them feeds the next.
SessionInv ==
  /\ TypeOK
  /\ BpTypeOK
  /\ session \in {"prompt", "looping", "raised"}
  /\ LoopInv
  /\ hit \in 0..(nextId - 1)
  /\ ShownInv


\* A session starts with an empty list and an uncounted loop.
LEMMA SessionInit == DebuggerInit => SessionInv
<1>. SUFFICES ASSUME DebuggerInit PROVE SessionInv
  OBVIOUS
<1>1. TypeOK
  BY InitType DEF DebuggerInit
<1>2. BpTypeOK /\ hit \in 0..(nextId - 1)
  BY DEF DebuggerInit, BpInit, BpTypeOK
<1>3. session \in {"prompt", "looping", "raised"}
  BY DEF DebuggerInit
<1>4. LoopInv
  <2>1. loop = [command |-> "nexti", inside |-> FALSE, left |-> 0]
    BY DEF DebuggerInit
  <2>. QED
    BY <2>1 DEF LoopInv
<1>5. ShownInv
  <2>1. lastChunk = Snapshot /\ LookFits
    BY <1>1, LookType DEF DebuggerInit
  <2>2. shown = CPUState
    BY DEF DebuggerInit
  <2>3. shown.cycle \in Nat /\ shown.pc \in Address /\ shown.halted \in BOOLEAN
    BY <2>2 DEF CPUState, Address
  <2>. QED
    BY <2>1, <2>3, Zenon DEF ShownInv, LookFits
<1>. QED
  BY <1>1, <1>2, <1>3, <1>4, <1>5 DEF SessionInv

\* What a look at the machine, or at the last chunk, makes of the state shown.
LEMMA LooksKeep ==
  ASSUME SessionInv, TypeOK'
  PROVE  /\ initialize => ShownInv'
         /\ step_instruction => ShownInv'
         /\ shown' = Updated(shown, lastChunk) /\ lastChunk' = lastChunk => ShownInv'
         /\ shown' = shown /\ lastChunk' = Snapshot /\ UNCHANGED machine => ShownInv'
         /\ shown' = CPUState /\ lastChunk' = lastChunk => ShownInv'
         /\ shown' = shown /\ lastChunk' = lastChunk => ShownInv'
<1>1. LookFits'
  <2>1. TypeOK' => LookFits'
    BY LookType, PTL
  <2>. QED
    BY <2>1
<1>2. LookFits
  BY LookType DEF SessionInv
<1>3. ShownInv
  BY DEF SessionInv
<1>4. ASSUME NEW state, NEW chunk, state.cycle \in Nat, state.halted \in BOOLEAN,
             chunk.pc \in Address, chunk.halted \in BOOLEAN
      PROVE  /\ Updated(state, chunk).cycle \in Nat /\ Cycled(state, chunk).cycle \in Nat
             /\ Updated(state, chunk).pc \in Address /\ Cycled(state, chunk).pc \in Address
             /\ Updated(state, chunk).halted \in BOOLEAN
             /\ Cycled(state, chunk).halted \in BOOLEAN
  BY <1>4 DEF Updated, Cycled
<1>5. initialize => ShownInv'
  <2>1. initialize => lastChunk' = Snapshot' /\ shown' = Updated(shown, lastChunk')
    BY DEF initialize
  <2>. QED
    BY <1>1, <1>3, <1>4, <2>1, Zenon DEF ShownInv, LookFits
<1>6. step_instruction => ShownInv'
  <2>1. step_instruction => lastChunk' = Snapshot' /\ shown' = Cycled(shown, lastChunk')
    BY DEF step_instruction
  <2>. QED
    BY <1>1, <1>3, <1>4, <2>1, Zenon DEF ShownInv, LookFits
<1>7. shown' = Updated(shown, lastChunk) /\ lastChunk' = lastChunk => ShownInv'
  BY <1>3, <1>4, Zenon DEF ShownInv
<1>8. shown' = shown /\ lastChunk' = Snapshot /\ UNCHANGED machine => ShownInv'
  BY <1>2, <1>3, Zenon DEF ShownInv, LookFits
<1>9. shown' = CPUState /\ lastChunk' = lastChunk => ShownInv'
  <2>1. CPUState.cycle \in Nat /\ CPUState.pc \in Address /\ CPUState.halted \in BOOLEAN
    BY DEF CPUState, Address
  <2>. QED
    BY <1>3, <2>1, Zenon DEF ShownInv
<1>10. shown' = shown /\ lastChunk' = lastChunk => ShownInv'
  BY <1>3, Zenon DEF ShownInv
<1>. QED
  BY <1>5, <1>6, <1>7, <1>8, <1>9, <1>10

\* The commands that edit the breakpoints and the watches.
LEMMA EditTypes ==
  ASSUME SessionInv, TypeOK', Edit
  PROVE  SessionInv'
<1>1. /\ UNCHANGED <<shown, lastChunk, loop>> /\ hit' = 0
      /\ session' \in {"prompt", "raised"}
  BY DEF Edit, do_break, do_delete, DeleteRaises, Switch, DeleteAll, do_watch, Command,
         MachineAlone, AtPrompt
<1>2. BpKept
  BY ManagerTypes DEF SessionInv, Edit, do_break, do_delete, DeleteRaises, Switch,
                      DeleteAll, do_watch
<1>3. ShownInv'
  BY <1>1, LooksKeep
<1>4. LoopInv'
  BY <1>1 DEF SessionInv, LoopInv
<1>5. hit' \in 0..(nextId' - 1)
  BY <1>1, <1>2 DEF BpKept, BpTypeOK
<1>. QED
  BY <1>1, <1>2, <1>3, <1>4, <1>5 DEF SessionInv, BpKept

\* The commands that drive the machine.
LEMMA DriveTypes ==
  ASSUME SessionInv, TypeOK', Drive
  PROVE  SessionInv'
<1>1. UNCHANGED bpVars /\ hit' = 0 /\ session' \in {"prompt", "looping"}
  BY DEF Drive, do_run, do_reset, do_tick, do_nexti, do_stepi, do_continue, do_check,
         StartLoop, Command, AtPrompt
<1>2. BpKept
  BY <1>1, ManagerTypes DEF SessionInv
<1>3. hit' \in 0..(nextId' - 1)
  BY <1>1, <1>2 DEF BpKept, BpTypeOK
<1>4. ASSUME NEW command, NEW count \in Nat, StartLoop(command, count)
      PROVE  LoopInv' /\ ShownInv'
  <2>1. loop' = [command |-> command, inside |-> FALSE, left |-> count]
    BY <1>4 DEF StartLoop
  <2>2. LoopInv'
    BY <2>1 DEF LoopInv
  <2>3. ShownInv'
    BY <1>4, LooksKeep DEF StartLoop, EnsureInitialized
  <2>. QED
    BY <2>2, <2>3
<1>5. CASE do_run \/ do_reset \/ do_tick
  <2>1. loop' = loop
    BY <1>5 DEF do_run, do_reset, do_tick, AtPrompt
  <2>2. LoopInv'
    BY <2>1 DEF SessionInv, LoopInv
  <2>3. ShownInv'
    BY <1>5, LooksKeep DEF do_run, do_reset, do_tick
  <2>. QED
    BY <1>1, <1>2, <1>3, <2>2, <2>3 DEF SessionInv, BpKept
<1>6. CASE do_nexti \/ do_stepi \/ do_continue \/ do_check
  <2>1. LoopInv' /\ ShownInv'
    BY <1>4, <1>6, DebuggerAssumption DEF do_nexti, do_stepi, do_continue, do_check
  <2>. QED
    BY <1>1, <1>2, <1>3, <2>1 DEF SessionInv, BpKept
<1>. QED
  BY <1>5, <1>6 DEF Drive


\* The steps of a loop: an instruction that is entered has its cycles to run and
\* one instruction to count, and its last cycle leaves it.
LEMMA LoopTypes ==
  ASSUME SessionInv, TypeOK', LoopStep
  PROVE  SessionInv'
<1>. USE DEF SessionInv
<1>1. (UNCHANGED bpVars) => BpKept
  BY ManagerTypes
<1>2. BpKept => \A n \in 0..(nextId - 1) : n \in 0..(nextId' - 1)
  BY DEF BpKept, BpTypeOK
<1>3. LoopInv
  OBVIOUS
<1>4. CASE EndLoop
  <2>1. UNCHANGED <<bpVars, loop, hit, shown, lastChunk>> /\ session' = "prompt"
    BY <1>4 DEF EndLoop, MachineAlone
  <2>. QED
    BY <1>1, <1>2, <2>1, LooksKeep DEF BpKept, LoopInv
<1>5. CASE StartInstruction
  <2>1. UNCHANGED <<bpVars, hit, shown, lastChunk, session>>
    BY <1>5 DEF StartInstruction, MachineAlone
  <2>2. /\ loop' = [command |-> loop.command, inside |-> TRUE, left |-> loop.left,
                    start |-> shown.pc, end |-> shown.pc + SizeOf(OpcodeAt(shown.pc)),
                    prev |-> shown.pc, cycles |-> MaxCycles]
        /\ loop.command # "check" /\ loop.left > 0 /\ loop.left \in Nat
        /\ MaxCycles \in Nat \ {0}
    BY <1>3, <1>5, DebuggerAssumption DEF StartInstruction, Stepping, LoopInv
  <2>3. LoopInv'
    BY <2>2 DEF LoopInv
  <2>. QED
    BY <1>1, <1>2, <2>1, <2>3, LooksKeep DEF BpKept
<1>6. CASE Cycle
  <2>1. loop.inside /\ Looping /\ loop.command # "check" /\ step_instruction
    BY <1>6 DEF Cycle, Stepping
  <2>2. ShownInv'
    BY <2>1, LooksKeep
  <2>3. CASE InstructionOver(shown')
    <3>1. /\ loop' = [command |-> loop.command, inside |-> FALSE, left |-> loop.left - 1]
          /\ check(shown'.pc)
      BY <1>6, <2>3 DEF Cycle
    <3>2. BpKept
      BY <3>1, ManagerTypes
    <3>3. LoopInv'
      BY <1>3, <2>1, <3>1 DEF LoopInv
    <3>4. hit' \in 0..(nextId' - 1) /\ session' \in {"prompt", "looping", "raised"}
      <4>1. CASE Hit(shown'.pc)
        <5>1. hit' = index[shown'.pc] /\ session' = "prompt"
          BY <1>6, <2>3, <4>1 DEF Cycle
        <5>2. hit' \in DOMAIN breakpoints
          BY <4>1, <5>1 DEF Hit
        <5>3. hit' \in 0..(nextId - 1)
          BY <5>2 DEF BpTypeOK
        <5>. QED
          BY <1>2, <3>2, <5>1, <5>3
      <4>2. CASE ~Hit(shown'.pc)
        <5>1. hit' = hit /\ session' = session
          BY <1>6, <2>3, <4>2 DEF Cycle
        <5>. QED
          BY <1>2, <3>2, <5>1
      <4>. QED
        BY <4>1, <4>2
    <3>. QED
      BY <2>2, <3>2, <3>3, <3>4 DEF BpKept
  <2>4. CASE ~InstructionOver(shown')
    <3>1. /\ loop' = [loop EXCEPT !.prev = shown'.pc, !.cycles = @ - 1]
          /\ UNCHANGED <<bpVars, hit, session>>
      BY <1>6, <2>4 DEF Cycle
    <3>2. loop.cycles # 1
      BY <2>4 DEF InstructionOver
    <3>3. LoopInv'
      <4>1. /\ {"command", "inside", "left", "cycles"} \subseteq DOMAIN loop
            /\ loop.left \in Nat /\ loop.left # 0 /\ loop.cycles \in 1..MaxCycles
            /\ MaxCycles \in Nat
        BY <1>3, <2>1, DebuggerAssumption DEF LoopInv
      <4>2. /\ DOMAIN loop' = DOMAIN loop /\ loop'.command = loop.command
            /\ loop'.inside = loop.inside /\ loop'.left = loop.left
            /\ loop'.cycles = loop.cycles - 1
        BY <3>1, <4>1
      <4>3. loop'.cycles \in 1..MaxCycles
        BY <3>2, <4>1, <4>2
      <4>. QED
        BY <2>1, <4>1, <4>2, <4>3 DEF LoopInv
    <3>. QED
      BY <1>1, <1>2, <2>2, <3>1, <3>3 DEF BpKept
  <2>. QED
    BY <2>3, <2>4
<1>7. CASE CycleRaises
  <2>1. UNCHANGED <<bpVars, loop, hit, shown, lastChunk>> /\ session' = "raised"
    BY <1>7 DEF CycleRaises
  <2>. QED
    BY <1>1, <1>2, <2>1, LooksKeep DEF BpKept, LoopInv
<1>8. CASE CheckCycle
  <2>1. UNCHANGED <<bpVars, hit, shown, lastChunk, session>>
    BY <1>8 DEF CheckCycle
  <2>2. /\ loop' = [loop EXCEPT !.left = @ - 1] /\ loop.command = "check" /\ loop.left > 0
    BY <1>8 DEF CheckCycle
  <2>3. LoopInv'
    <3>1. /\ {"command", "inside", "left"} \subseteq DOMAIN loop
          /\ loop.left \in Nat /\ loop.inside = FALSE
      BY <1>3, <2>2 DEF LoopInv
    <3>2. /\ DOMAIN loop' = DOMAIN loop /\ loop'.inside = FALSE
          /\ loop'.left = loop.left - 1
      BY <2>2, <3>1
    <3>. QED
      BY <2>2, <3>1, <3>2 DEF LoopInv
  <2>. QED
    BY <1>1, <1>2, <2>1, <2>3, LooksKeep DEF BpKept
<1>9. CASE CheckEnd
  <2>1. /\ UNCHANGED <<bpVars, loop, hit, lastChunk>> /\ session' = "prompt"
        /\ shown' = Updated(shown, lastChunk)
    BY <1>9 DEF CheckEnd
  <2>. QED
    BY <1>1, <1>2, <2>1, LooksKeep DEF BpKept, LoopInv
<1>. QED
  BY <1>4, <1>5, <1>6, <1>7, <1>8, <1>9 DEF LoopStep

\* Every step keeps the invariant of the session.
LEMMA SessionStep == SessionInv /\ [DebuggerNext]_dbgVars => SessionInv'
<1>. SUFFICES ASSUME SessionInv, [DebuggerNext]_dbgVars PROVE SessionInv'
  OBVIOUS
<1>1. TypeOK'
  BY MachineSteps, NextType DEF SessionInv
<1>2. CASE UNCHANGED dbgVars
  <2>1. UNCHANGED <<bpVars, loop, hit, shown, lastChunk, session>>
    BY <1>2 DEF dbgVars
  <2>2. BpKept
    BY <2>1, ManagerTypes DEF SessionInv
  <2>3. ShownInv' /\ LoopInv'
    BY <2>1 DEF SessionInv, ShownInv, LoopInv
  <2>. QED
    BY <1>1, <2>1, <2>2, <2>3 DEF SessionInv, BpKept, bpVars
<1>. QED
  BY <1>1, <1>2, EditTypes, DriveTypes, LoopTypes DEF DebuggerNext

\* DebuggerTypeOK: in every session the loop of a command counts down to its end and
\* no further, an instruction is given at most MaxCycles cycles, a reported
\* breakpoint has an id that was given out, and what is shown is an address of the
\* machine.
THEOREM SessionsTyped == DebuggerSpec => []DebuggerTypeOK
<1>1. SessionInv => DebuggerTypeOK
  BY DEF SessionInv, DebuggerTypeOK, ShownInv, LoopInv
<1>. QED
  BY <1>1, SessionInit, SessionStep, PTL DEF DebuggerSpec

=============================================================================
