------------------------------ MODULE PostRuns -----------------------------
(***************************************************************************)
(* Post-processing a calculation that may still be running.  A command     *)
(* constructs one object of a class and runs it once; a script may run it  *)
(* again.  run() reads the output, lets four threads apply the rules to    *)
(* each line, writes the tree, and then reads the structure files one by   *)
(* one, while the calculation goes on or is started again.                 *)
(***************************************************************************)
EXTENDS PostRules, FiniteSets

CONSTANTS
    Programs,   \* the classes of an instance
    MaxSteps,   \* bound: steps of one execution of the calculation
    MaxPasses,  \* bound: executions of the calculation
    MaxRuns,    \* bound: calls of run()
    MaxTurns    \* bound: executions and calls together

ASSUME PostAssumption ==
    /\ Programs \subseteq DOMAIN Classes
    /\ {MaxSteps, MaxPasses, MaxRuns, MaxTurns} \subseteq Nat \ {0}

VARIABLES
    class,      \* the class, and so the program
    pass,       \* the execution of the calculation, 0 before the first
    phase,      \* "none", "running", or how the execution ended
    wrote,      \* file -> steps (for "pos" half frames) written in this pass
    out,        \* the lines of the program's output
    ends,       \* pass -> how it ended and at which step (history)
    pc,         \* what run() does next
    runs,       \* calls of run() so far
    lines, info,    \* the object: lines and tree
    at,         \* the line the threads are at
    busy,       \* the threads not yet through with that line
    settled,    \* the tree when the threads were last joined (history)
    seen,       \* steps in each output this object has read (history)
    began,      \* the pass that had ended when this run() began, or 0 (history)
    frame,      \* the positions this run() has read
    post        \* post.dir: name -> content

calculation == <<class, pass, phase, wrote, out, ends>>
object == <<lines, info, at, busy, settled, seen>>
vars == <<calculation, pc, runs, object, began, frame, post>>

Files == {"out", "pos", "cell", "geometry"}

(* The files a program extends step by step. *)
Written(c) ==
    {"out"} \cup (IF HasCp2kStructure(c) THEN {"pos", "cell"} ELSE {})
            \cup (IF c = "elk" THEN {"geometry"} ELSE {})

StepsIn(file) == IF file = "pos" THEN wrote.pos \div 2 ELSE wrote[file]

Nothing == <<0, 0>>

Of(texts, value) == [i \in DOMAIN texts |-> [line |-> texts[i], of |-> value]]

Init ==
    /\ class \in Programs
    /\ pass = 0 /\ phase = "none" /\ wrote = [f \in Files |-> 0] /\ out = <<>>
    /\ ends = [p \in 1..MaxPasses |-> [how |-> "none", step |-> 0]]
    /\ pc = "none" /\ runs = 0
    /\ lines = <<>> /\ info = Constructed(class) /\ settled = info /\ seen = <<>>
    /\ at = 1 /\ busy = {}
    /\ began = 0 /\ frame = Nothing
    /\ post = [f \in {} |-> Nothing]

-----------------------------------------------------------------------------
(* The calculation (external).  CP2K's output goes through `tee -a`, that  *)
(* of the other programs is replaced.                                      *)
Start ==
    /\ pass < MaxPasses /\ pass + runs < MaxTurns
    /\ pass' = pass + 1 /\ phase' = "running"
    /\ wrote' = [f \in Files |-> 0]
    /\ out' = (IF class \in {"opt", "vcopt", "md"} THEN out ELSE <<>>)
              \o Of(Classes[class].head, <<pass', 0>>)
    /\ UNCHANGED <<class, ends, pc, runs, object, began, frame, post>>

(* No file of a step is begun before all files of the step before are full. *)
WriteFile(f) ==
    /\ phase = "running"
    /\ f \in Written(class)
    /\ StepsIn(f) < MaxSteps
    /\ \A g \in Written(class) : StepsIn(f) <= StepsIn(g)
    /\ wrote' = [wrote EXCEPT ![f] = @ + 1]
    /\ out' = IF f = "out"
              THEN out \o Of(Classes[class].step, <<pass, wrote.out + 1>>) ELSE out
    /\ UNCHANGED <<class, pass, phase, ends, pc, runs, object, began, frame, post>>

End(how) ==
    /\ phase = "running"
    /\ wrote.out > 0
    /\ \A f \in Written(class) : StepsIn(f) = wrote.out
    /\ phase' = how
    /\ ends' = [ends EXCEPT ![pass] = [how |-> how, step |-> wrote.out]]
    /\ out' = IF how = "converged"
              THEN out \o Of(Classes[class].converged, <<pass, wrote.out>>) ELSE out
    /\ UNCHANGED <<class, pass, wrote, pc, runs, object, began, frame, post>>

Calculate == Start \/ (\E f \in Files : WriteFile(f)) \/ (\E how \in {"converged", "cut"} : End(how))

-----------------------------------------------------------------------------
(* The object. *)
Construct ==
    /\ pc \in {"none", "idle"}
    /\ runs < MaxRuns
    /\ runs = 0 => pc = "none"
    /\ lines' = <<>> /\ info' = Constructed(class) /\ settled' = info' /\ seen' = <<>>
    /\ at' = 1 /\ busy' = {}
    /\ pc' = "idle"
    /\ UNCHANGED <<calculation, runs, began, frame, post>>

(* Elk: get_extra_info adds two children on every run(), and every energy  *)
(* of TOTENERGY_OPT.OUT goes to the first of that name.                    *)
Energies(tree, key) ==
    LET added == AddChild(tree, key)
    IN  [added EXCEPT ![First(added, key)].val = @ \o [k \in 1..wrote.out |-> <<pass, k>>]]

ExtraInfo(tree) ==
    IF class = "elk" THEN Energies(Energies(tree, "tot-energy"), "stress") ELSE tree

BeginRun ==
    /\ pc = "idle"
    /\ runs < MaxRuns /\ pass + runs < MaxTurns
    /\ runs' = runs + 1
    /\ info' = ExtraInfo(info) /\ settled' = info'
    /\ began' = IF phase \in {"converged", "cut"} THEN pass ELSE 0
    /\ frame' = Nothing
    /\ pc' = "open"
    /\ UNCHANGED <<calculation, lines, at, busy, seen, post>>

(* The threads that find a match in a line; the others change nothing and  *)
(* are not followed.                                                       *)
AtWork(ls, i) ==
    {t \in Threads : i <= Len(ls) /\ \E r \in Range(RulesOf(Rules(class), t)) :
                                            ls[i].line \in r.lines}

\* A mutant of ReadLines.
ReadLinesCleared ==
    /\ pc = "open"
    /\ lines' = out
    /\ at' = 1 /\ busy' = AtWork(lines', 1)
    /\ seen' = Append(seen, Cardinality({i \in DOMAIN out : out[i].line = Head(Classes[class].step)}))
    /\ pc' = "rules"
    /\ UNCHANGED <<calculation, runs, info, settled, began, frame, post>>

ReadLines ==
    /\ pc = "open"
    /\ lines' = lines \o out
    /\ at' = 1 /\ busy' = AtWork(lines', 1)
    /\ seen' = Append(seen, Cardinality({i \in DOMAIN out : out[i].line = Head(Classes[class].step)}))
    /\ pc' = "rules"
    /\ UNCHANGED <<calculation, runs, info, settled, began, frame, post>>

Thread(t) ==
    /\ pc = "rules" /\ at <= Len(lines) /\ t \in busy
    /\ info' = ApplyRules(info, RulesOf(Rules(class), t), lines[at])
    /\ busy' = busy \ {t}
    /\ UNCHANGED <<calculation, pc, runs, lines, at, settled, seen, began, frame, post>>

Join ==
    /\ pc = "rules" /\ at <= Len(lines) /\ busy = {}
    /\ at' = at + 1 /\ busy' = AtWork(lines, at + 1)
    /\ settled' = info
    /\ UNCHANGED <<calculation, pc, runs, lines, info, seen, began, frame, post>>

Save(name, content) == [f \in DOMAIN post \cup {name} |-> IF f = name THEN content ELSE post[f]]

WriteJson ==
    /\ pc = "rules" /\ at > Len(lines)
    /\ post' = Save("json", info)
    /\ pc' = IF Classes[class].after = <<>> THEN "idle" ELSE Head(Classes[class].after)
    /\ busy' = {}
    /\ UNCHANGED <<calculation, runs, lines, info, at, settled, seen, began, frame>>

-----------------------------------------------------------------------------
(* The structure.  An index outside of the lines that were read is         *)
(* undefined behaviour: the process may do anything, here it ends.         *)
Crash ==
    /\ pc' = "crashed"
    /\ UNCHANGED <<calculation, runs, object, began, frame, post>>

\* A mutant of ReadPositions.
ReadPositionsCutFrame ==
    /\ pc = "pos"
    /\ \/ wrote.pos = 0 /\ Crash
       \/ /\ wrote.pos > 0
          /\ frame' = <<pass, (wrote.pos + 1) \div 2>>
          /\ pc' = "cell"
          /\ UNCHANGED <<calculation, runs, object, began, post>>

(* CP2K: the last complete frame, by the number of lines. *)
ReadPositions ==
    /\ pc = "pos"
    /\ \/ wrote.pos = 0 /\ Crash
       \/ /\ wrote.pos > 0
          /\ frame' = <<pass, wrote.pos \div 2>>
          /\ pc' = "cell"
          /\ UNCHANGED <<calculation, runs, object, began, post>>

Optimized == info[First(info, "optimized")].val = <<Yes>>

StructureName == IF Optimized THEN "optimized.xyz" ELSE "unoptimized.xyz"

ReadCell ==
    /\ pc = "cell"
    /\ \/ (wrote.cell = 0 \/ frame[2] = 0) /\ Crash
       \/ /\ wrote.cell > 0 /\ frame[2] > 0
          /\ post' = Save(StructureName, [frame |-> frame, cell |-> <<pass, wrote.cell>>])
          /\ pc' = "idle"
          /\ UNCHANGED <<calculation, runs, object, began, frame>>

SaveOptimized(positions, cell) ==
    /\ post' = Save("optimized.xyz", [frame |-> positions, cell |-> cell])
    /\ frame' = positions
    /\ pc' = "idle"
    /\ UNCHANGED <<calculation, runs, object, began>>

(* Quantum ESPRESSO: the cell is the first that was printed.  Without the  *)
(* final coordinates the first line of the output is taken for an atom.    *)
ReadOutAgain ==
    /\ pc = "out"
    /\ IF \E i \in DOMAIN out : out[i].line = "End_final_coordinates"
       THEN SaveOptimized(<<pass, wrote.out>>, <<pass, 0>>) ELSE Crash

(* Elk: GEOMETRY.OUT as it is, whether or not the calculation is over. *)
ReadGeometry ==
    /\ pc = "geometry"
    /\ IF wrote.geometry = 0 THEN Crash
       ELSE SaveOptimized(<<pass, wrote.geometry>>, <<pass, wrote.geometry>>)

(* Octopus: min.xyz, written when a minimisation is over (external); the   *)
(* cell is that of the input.                                              *)
Ended == {p \in 1..MaxPasses : ends[p].how # "none"}

ReadMin ==
    /\ pc = "min"
    /\ IF Ended = {} THEN Crash
       ELSE LET p == Max(Ended) IN SaveOptimized(<<p, ends[p].step>>, <<p, 0>>)

Run ==
    \/ BeginRun \/ ReadLines \/ (\E t \in Threads : Thread(t)) \/ Join \/ WriteJson
    \/ ReadPositions \/ ReadCell \/ ReadOutAgain \/ ReadGeometry \/ ReadMin

Next == Calculate \/ Construct \/ Run

Spec == Init /\ [][Next]_vars

-----------------------------------------------------------------------------
Steps == Nat \X Nat

(* Applying the rules in four threads, which write the tree without a lock *)
(* (post.cpp:68-104), gives what applying them in their order, line by     *)
(* line, gives: no rule is left out or applied twice, and no two threads   *)
(* write the tree for one line.                                            *)
Reader == INSTANCE PostReader WITH
    info <- settled,
    todo <- IF pc = "rules" THEN SubSeq(lines, at, Len(lines)) ELSE <<>>

Sequential == Reader!Spec

(* A structure named optimized comes from a calculation that converged:    *)
(* CP2K's run() reads the output before the positions, and Quantum         *)
(* ESPRESSO's finds the final coordinates.  It holds the last step.  Not   *)
(* when CP2K has been executed twice into one output.                      *)
OptimizedIsFinal ==
    /\ "optimized.xyz" \in DOMAIN post
    /\ class = "qe" \/ (HasCp2kStructure(class) /\ pass = 1)
    => LET f == post["optimized.xyz"].frame
       IN f[2] > 0 /\ ends[f[1]] = [how |-> "converged", step |-> f[2]]

(* CP2K's structure (opt.cpp:123-176) holds a whole frame, and its cell,   *)
(* which is read after the positions, is at most one step behind them.     *)
PositionsAndCell ==
    \A name \in DOMAIN post \ {"json"} : HasCp2kStructure(class) =>
        LET s == post[name]
        IN /\ s.frame[1] = pass => s.frame[2] \in 1..StepsIn("pos")
           /\ s.frame[1] = s.cell[1] => s.cell[2] >= s.frame[2] - 1

(* If the calculation was over before run() began, and has not been        *)
(* started again, the positions and the cell are of one step.              *)
OverIsOneStep ==
    [][pc = "cell" /\ pc' = "idle" /\ began = pass =>
          post'[StructureName].frame = post'[StructureName].cell]_vars

(* Together: what run() saves is a structure, and named as what it is.     *)
SavedStructure == [](OptimizedIsFinal /\ PositionsAndCell) /\ OverIsOneStep

(* An object keeps the lines of the outputs it has read: its k-th run()    *)
(* applies the rules to all of them once more (post.cpp:52, 101), so that  *)
(* a list of the tree holds the steps of the first output k times, those   *)
(* of the second k - 1 times.  Used once, one value for each step.         *)
Times(k) == FoldLeft(LAMBDA n, i : n + (k + 1 - i) * seen[i], 0, [i \in 1..k |-> i])

ListsRepeat ==
    (pc = "idle" /\ "json" \in DOMAIN post /\ seen # <<>>) =>
        \A i \in DOMAIN post["json"] :
            post["json"][i].key \in {"ENERGY|_Total", "energy"} =>
                Len(post["json"][i].val) = Times(Len(seen))
=============================================================================
