------------------------ MODULE JobSchedulerProofs ------------------------
(* Theorems of JobScheduler for every set of calculators, directories,     *)
(* servers and levels.                                                     *)
EXTENDS JobScheduler, TLAPS

-----------------------------------------------------------------------------
(* What the run() of a calculator makes of job.steps is a list of run()    *)
(* numbers; that of a clearing calculator is its own block.                *)
LEMMA RenewType ==
  ASSUME NEW p \in Proc, NEW r \in Nat, steps \in [Proc -> Seq(Nat)]
  PROVE  /\ [i \in 1..Blocks[p] |-> r] \in Seq(Nat)
         /\ Renew(p, [i \in 1..Blocks[p] |-> r]) \in Seq(Nat)
         /\ p \in Clearing => Renew(p, [i \in 1..Blocks[p] |-> r])
                                 = [i \in 1..Blocks[p] |-> r]
  <1>1. [i \in 1..Blocks[p] |-> r] \in Seq(Nat)
    BY JobAssumption, SMTT(40) DEF JobAssumption
  <1>. DEFINE block == [i \in 1..Blocks[p] |-> r]
  <1>2. /\ block \in Seq(Nat) => steps[p] \o block \in Seq(Nat)
    OBVIOUS
  <1>. QED  BY <1>1, <1>2 DEF Renew

(* A script that run() writes is a script. *)
LEMMA RenderType ==
  ASSUME TypeOK, NEW p \in Proc, target[p] \in Dir, NEW n \in Names
  PROVE  Render(p, n) \in Script
  BY DEF Render, Script, TypeOK

LEMMA WriteScriptType ==
  ASSUME TypeOK, NEW p \in Proc, target[p] \in Dir, NEW n \in Names, WriteScript(p, n)
  PROVE  scripts' \in [Dir -> SUBSET Script]
  <1>. DEFINE d == target[p]
              new == Written(scripts[d], Render(p, n))
  <1>1. Render(p, n) \in Script
    BY RenderType
  <1>2. scripts \in [Dir -> SUBSET Script]
    BY DEF TypeOK
  <1>3. new \subseteq Script
    BY <1>1, <1>2 DEF Written
  <1>4. scripts' = scripts \/ scripts' = [scripts EXCEPT ![d] = new]
    BY DEF WriteScript
  <1>. QED  BY <1>2, <1>3, <1>4

LEMMA ExecuteType ==
  ASSUME TypeOK, NEW s \in Script, NEW via \in {"bash", "batch"}, Execute(s, via)
  PROVE  results' \in [Dir -> SUBSET Result]
  <1>. DEFINE new == {[by |-> s.by, run |-> s.steps[i], via |-> via] : i \in DOMAIN s.steps}
  <1>1. s.by \in Proc /\ s.dir \in Dir /\ \A i \in DOMAIN s.steps : s.steps[i] \in Nat
    BY DEF Script
  <1>2. new \subseteq Result
    BY <1>1 DEF Result
  <1>3. results' = results \/ results' = [results EXCEPT ![s.dir] = @ \cup new]
    BY DEF Execute
  <1>. HIDE DEF new
  <1>4. results \in [Dir -> SUBSET Result]
    BY DEF TypeOK
  <1>. QED  BY <1>2, <1>3, <1>4

(* Every name run() gives a script. *)
LEMMA ScriptNames == \A s \in Known : ScriptName(s) \in Names
  BY DEF Names

-----------------------------------------------------------------------------
(* Between the first file-system call and the return of run() the working  *)
(* directory is known.                                                     *)
InCall == \A p \in Proc : pc[p] # "idle" => target[p] \in Dir

IType == TypeOK /\ InCall

LEMMA ITypeInit == Init => IType
<1>. SUFFICES ASSUME Init PROVE IType
  OBVIOUS
<1>1. run_params \in [Proc -> [auto_level: {0} \cup Level,
                               server: {""} \cup Server, xyz_file: BOOLEAN]]
  BY DEF Init
<1>2. kind \in [Dir -> {"absent", "directory", "regular"}]
  BY DEF Init
<1>3. steps \in [Proc -> Seq(Nat)]
  <2>1. << >> \in Seq(Nat)
    OBVIOUS
  <2>. QED  BY <2>1 DEF Init
<1>4. /\ scripts \in [Dir -> SUBSET Script]
      /\ copies \in [Dir -> SUBSET STRING]
      /\ results \in [Dir -> SUBSET Result]
      /\ users \in [Dir -> SUBSET Proc]
  <2>1. \A T : [d \in Dir |-> {}] \in [Dir -> SUBSET T]
    OBVIOUS
  <2>. QED  BY <2>1 DEF Init
<1>5. /\ runs \in [Proc -> Nat]
      /\ pc \in [Proc -> Phases]
      /\ target \in [Proc -> Dir \cup {NoDir}]
      /\ outcome \in [Proc -> {"none", "ok", "threw"}]
      /\ InCall
  BY DEF Init, Phases, InCall
<1>6. source \subseteq Proc /\ queue \subseteq Job /\ crossed \subseteq Proc
  BY DEF Init
<1>. QED  BY <1>1, <1>2, <1>3, <1>4, <1>5, <1>6 DEF IType, TypeOK

LEMMA ITypeNext == IType /\ [Next]_vars => IType'
<1>. SUFFICES ASSUME IType, [Next]_vars PROVE IType'
  OBVIOUS
<1>. USE DEF IType, InCall
<1>1. ASSUME NEW p \in Proc,
             SetAutoLevel(p) \/ SetServer(p) \/ SetRunDefault(p) \/ GetXyz(p)
      PROVE  IType'
  <2>. DEFINE P == [auto_level: {0} \cup Level, server: {""} \cup Server, xyz_file: BOOLEAN]
              c == run_params[p]
  <2>1. c \in P
    BY DEF TypeOK
  <2>2. PICK key \in {"auto_level", "server", "xyz_file"},
             value \in {0} \cup Level \cup Server \cup BOOLEAN :
          Configure(p, key, value) /\ [c EXCEPT ![key] = value] \in P
    <3>1. CASE SetAutoLevel(p)
      BY <3>1, <2>1 DEF SetAutoLevel
    <3>2. CASE SetServer(p)
      BY <3>2, <2>1 DEF SetServer
    <3>3. CASE SetRunDefault(p)
      BY <3>3, <2>1 DEF SetRunDefault
    <3>4. CASE GetXyz(p)
      BY <3>4, <2>1 DEF GetXyz
    <3>. QED  BY <1>1, <3>1, <3>2, <3>3, <3>4
  <2>. HIDE DEF P
  <2>3. run_params \in [Proc -> P]
    BY DEF TypeOK, P
  <2>4. run_params' = [run_params EXCEPT ![p] = [c EXCEPT ![key] = value]]
    BY <2>2 DEF Configure
  <2>5. run_params' \in [Proc -> P]
    BY <2>2, <2>3, <2>4
  <2>. QED  BY <2>2, <2>5 DEF Configure, TypeOK, dirVars, history, P
<1>2. ASSUME NEW p \in Proc, NEW d \in Uses[p], BeginRun(p, d)
      PROVE  IType'
  <2>1. d \in Dir
    BY JobAssumption DEF JobAssumption
  <2>2. runs[p] + 1 \in Nat
    <3>1. runs \in [Proc -> Nat]
      BY DEF TypeOK
    <3>. QED  BY <3>1
  <2>3. steps' \in [Proc -> Seq(Nat)]
    <3>. DEFINE new == Renew(p, [i \in 1..Blocks[p] |-> runs[p] + 1])
    <3>1. steps \in [Proc -> Seq(Nat)]
      BY DEF TypeOK
    <3>2. new \in Seq(Nat)
      BY <2>2, <3>1, RenewType
    <3>3. steps' = [steps EXCEPT ![p] = new]
      BY <1>2 DEF BeginRun
    <3>. HIDE DEF new
    <3>. QED  BY <3>1, <3>2, <3>3
  <2>4. runs' \in [Proc -> Nat] /\ target' \in [Proc -> Dir \cup {NoDir}]
    BY <1>2, <2>1, <2>2 DEF BeginRun, TypeOK
  <2>5. users' \in [Dir -> SUBSET Proc]
    <3>1. users' = users \/ users' = [users EXCEPT ![d] = @ \cup {p}]
      BY <1>2 DEF BeginRun, history
    <3>2. users \in [Dir -> SUBSET Proc]
      BY DEF TypeOK
    <3>. QED  BY <3>1, <3>2
  <2>8. crossed' \subseteq Proc
    <3>1. crossed \subseteq Proc /\ Others(p, d) \subseteq Proc
      BY DEF TypeOK, Others
    <3>2. crossed' \subseteq crossed \cup Others(p, d) \cup {p}
      BY <1>2 DEF BeginRun, history
    <3>. QED  BY <3>1, <3>2
  <2>6. pc' \in [Proc -> Phases] /\ \A q \in Proc : q # p => pc'[q] = pc[q]
    <3>1. pc' = [pc EXCEPT ![p] = "remove"] \/ pc' = [pc EXCEPT ![p] = "handle"]
      BY <1>2 DEF BeginRun
    <3>. QED  BY <3>1 DEF TypeOK, Phases
  <2>7. \A q \in Proc : pc'[q] # "idle" => target'[q] \in Dir
    BY <1>2, <2>1, <2>6 DEF BeginRun, TypeOK
  <2>. QED  BY <1>2, <2>3, <2>4, <2>5, <2>6, <2>7, <2>8 DEF BeginRun, TypeOK, dirVars
<1>3. ASSUME NEW p \in Proc, RemoveAll(p)
      PROVE  IType'
  BY <1>3 DEF RemoveAll, TypeOK, Phases, callVars, history
<1>4. ASSUME NEW p \in Proc, CreateDirectories(p)
      PROVE  IType'
  BY <1>4 DEF CreateDirectories, Throw, TypeOK, Phases, callVars, history
<1>5. ASSUME NEW p \in Proc, CopyXyz(p)
      PROVE  IType'
  <2>1. XyzName[p] \in STRING
    BY JobAssumption DEF JobAssumption
  <2>. DEFINE d == target[p]
  <2>2. copies' = copies \/ copies' = [copies EXCEPT ![d] = @ \cup {XyzName[p]}]
    BY <1>5 DEF CopyXyz
  <2>3. copies' \in [Dir -> SUBSET STRING]
    <3>1. copies \in [Dir -> SUBSET STRING]
      BY DEF TypeOK
    <3>. QED  BY <2>1, <2>2, <3>1
  <2>4. kind' = kind \/ kind' = [kind EXCEPT ![d] = "regular"] \/ kind' = [kind EXCEPT ![d] = @]
    BY <1>5 DEF CopyXyz
  <2>5. kind' \in [Dir -> {"absent", "directory", "regular"}]
    BY <2>4 DEF TypeOK
  <2>6. \/ pc' = [pc EXCEPT ![p] = "script"] /\ outcome' = outcome
        \/ Throw(p)
    BY <1>5 DEF CopyXyz
  <2>7. pc' \in [Proc -> Phases] /\ outcome' \in [Proc -> {"none", "ok", "threw"}]
    <3>1. pc \in [Proc -> Phases] /\ outcome \in [Proc -> {"none", "ok", "threw"}]
      BY DEF TypeOK
    <3>. QED  BY <2>6, <3>1 DEF Throw, Phases
  <2>8. \A q \in Proc : pc'[q] # "idle" => pc[q] # "idle"
    BY <1>5, <2>6 DEF CopyXyz, Throw, TypeOK
  <2>. QED  BY <1>5, <2>3, <2>5, <2>7, <2>8 DEF CopyXyz, TypeOK, callVars, history
<1>6. ASSUME NEW p \in Proc, GenScript(p)
      PROVE  IType'
  <2>1. target[p] \in Dir
    BY <1>6 DEF GenScript
  <2>2. scripts' \in [Dir -> SUBSET Script]
    <3>1. CASE run_params[p].server \in Known
      BY <1>6, <2>1, <3>1, ScriptNames, WriteScriptType DEF GenScript
    <3>2. CASE run_params[p].server \notin Known
      BY <1>6, <3>2 DEF GenScript, TypeOK
    <3>. QED  BY <3>1, <3>2
  <2>. QED  BY <1>6, <2>1, <2>2 DEF GenScript, TypeOK, Phases, callVars, history
<1>7. ASSUME NEW p \in Proc, GenBash(p)
      PROVE  IType'
  <2>1. target[p] \in Dir
    BY <1>7 DEF GenBash
  <2>2. scripts' \in [Dir -> SUBSET Script]
    BY <1>7, <2>1, WriteScriptType DEF GenBash, Names
  <2>. QED  BY <1>7, <2>1, <2>2 DEF GenBash, TypeOK, Phases, callVars, history
<1>8. ASSUME NEW p \in Proc, SystemBash(p)
      PROVE  IType'
  <2>1. target[p] \in Dir
    BY <1>8 DEF SystemBash
  <2>2. results' \in [Dir -> SUBSET Result]
    <3>1. CASE results' = results
      BY <3>1 DEF TypeOK
    <3>2. CASE \E s \in scripts[target[p]] : Execute(s, "bash")
      BY <2>1, <3>2, ExecuteType DEF TypeOK
    <3>. QED  BY <1>8, <3>1, <3>2 DEF SystemBash
  <2>. QED  BY <1>8, <2>1, <2>2 DEF SystemBash, TypeOK, Phases, callVars, history
<1>9. ASSUME NEW p \in Proc, ServerHandle(p)
      PROVE  IType'
  <2>1. target[p] \in Dir
    BY <1>9 DEF ServerHandle
  <2>2. \A s \in Submittable(p) : [by |-> p, run |-> runs[p], script |-> s] \in Job
    BY <2>1 DEF Submittable, Job, TypeOK
  <2>3. queue' \subseteq Job
    <3>. DEFINE new == {[by |-> p, run |-> runs[p], script |-> s] : s \in Submittable(p)}
    <3>1. new \subseteq Job
      BY <2>2
    <3>. HIDE DEF new
    <3>2. queue' = queue \cup new
      BY <1>9 DEF ServerHandle, new
    <3>. QED  BY <3>1, <3>2 DEF TypeOK
  <2>. QED  BY <1>9, <2>3 DEF ServerHandle, TypeOK, Phases, callVars, history, dirVars
<1>10. ASSUME NEW j \in queue, RunJob(j)
       PROVE  IType'
  <2>1. j.script \in Script
    BY DEF TypeOK, Job
  <2>2. results' \in [Dir -> SUBSET Result]
    BY <1>10, <2>1, ExecuteType DEF RunJob
  <2>. QED  BY <1>10, <2>2 DEF RunJob, TypeOK, callVars, history
<1>11. CASE UNCHANGED vars
  BY <1>11 DEF vars, callVars, history, dirVars, TypeOK
<1>. QED
  BY <1>1, <1>2, <1>3, <1>4, <1>5, <1>6, <1>7, <1>8, <1>9, <1>10, <1>11 DEF Next, Run

(* Every variable of the scheduler keeps its type, whatever the            *)
(* calculators, directories, servers and levels.                           *)
THEOREM TypeCorrect == Spec => []TypeOK
<1>1. IType => TypeOK
  BY DEF IType
<1>. QED  BY <1>1, ITypeInit, ITypeNext, PTL DEF Spec

-----------------------------------------------------------------------------
(* What a call of run() leaves alone, and what a script file is after one. *)
LEMMA WrittenScripts ==
  ASSUME scripts \in [Dir -> SUBSET Script], NEW p \in Proc, NEW n, WriteScript(p, n)
  PROVE  \A d \in Dir : \A s \in scripts'[d] :
            s \in scripts[d] \/ (d = target[p] /\ s = Render(p, n))
  <1>. SUFFICES ASSUME NEW d \in Dir, NEW s \in scripts'[d]
                PROVE  s \in scripts[d] \/ (d = target[p] /\ s = Render(p, n))
    OBVIOUS
  <1>. DEFINE t == target[p]
              new == Written(scripts[t], Render(p, n))
  <1>1. scripts' = scripts \/ scripts' = [scripts EXCEPT ![t] = new]
    BY DEF WriteScript
  <1>2. \A f \in new : f \in scripts[t] \/ f = Render(p, n)
    BY DEF Written
  <1>. HIDE DEF new
  <1>. QED  BY <1>1, <1>2

LEMMA Calls ==
  ASSUME NEW p \in Proc, Run(p), IType
  PROVE  /\ pc[p] # "idle"
         /\ UNCHANGED <<run_params, steps, runs, target, users, crossed>>
         /\ \A q \in Proc : q # p => pc'[q] = pc[q] /\ outcome'[q] = outcome[q]
  <1>1. pc \in [Proc -> Phases] /\ outcome \in [Proc -> {"none", "ok", "threw"}]
    BY DEF IType, TypeOK
  <1>2. CASE RemoveAll(p)
    BY <1>1, <1>2 DEF RemoveAll, callVars, history
  <1>3. CASE CreateDirectories(p)
    BY <1>1, <1>3 DEF CreateDirectories, Throw, callVars, history
  <1>4. CASE CopyXyz(p)
    BY <1>1, <1>4 DEF CopyXyz, Throw, callVars, history
  <1>5. CASE GenScript(p)
    BY <1>1, <1>5 DEF GenScript, callVars, history
  <1>6. CASE GenBash(p)
    BY <1>1, <1>6 DEF GenBash, callVars, history
  <1>7. CASE SystemBash(p)
    BY <1>1, <1>7 DEF SystemBash, callVars, history
  <1>8. CASE ServerHandle(p)
    BY <1>1, <1>8 DEF ServerHandle, callVars, history
  <1>. QED  BY <1>2, <1>3, <1>4, <1>5, <1>6, <1>7, <1>8 DEF Run

(* Setting a parameter, between two calls. *)
LEMMA Settings ==
  ASSUME NEW p \in Proc,
         SetAutoLevel(p) \/ SetServer(p) \/ SetRunDefault(p) \/ GetXyz(p)
  PROVE  /\ pc[p] = "idle"
         /\ \E c : run_params' = [run_params EXCEPT ![p] = c]
         /\ UNCHANGED <<steps, runs, target, pc, outcome, dirVars, queue, users, crossed>>
  BY DEF SetAutoLevel, SetServer, SetRunDefault, GetXyz, Configure, history

-----------------------------------------------------------------------------
FreshInv == OneRunPerScript /\ FreshSteps

LEMMA FreshInit == Init => FreshInv
  BY DEF Init, FreshInv, OneRunPerScript, FreshSteps

LEMMA FreshNext == IType /\ FreshInv /\ [Next]_vars => FreshInv'
<1>. SUFFICES ASSUME IType, FreshInv, [Next]_vars PROVE FreshInv'
  OBVIOUS
<1>. USE DEF FreshInv
<1>0. /\ scripts \in [Dir -> SUBSET Script]
      /\ steps \in [Proc -> Seq(Nat)]
      /\ runs \in [Proc -> Nat]
      /\ pc \in [Proc -> Phases]
      /\ \A p \in Proc : pc[p] # "idle" => target[p] \in Dir
  BY DEF IType, TypeOK, InCall
<1>1. ASSUME NEW p \in Proc,
             SetAutoLevel(p) \/ SetServer(p) \/ SetRunDefault(p) \/ GetXyz(p)
      PROVE  FreshInv'
  BY <1>1, Settings DEF OneRunPerScript, FreshSteps, Fresh, dirVars
<1>2. ASSUME NEW p \in Proc, NEW d \in Uses[p], BeginRun(p, d)
      PROVE  FreshInv'
  <2>1. runs[p] + 1 \in Nat
    BY <1>0
  <2>. DEFINE block == [i \in 1..Blocks[p] |-> runs[p] + 1]
              new == Renew(p, block)
  <2>2. p \in Clearing => new = block
    BY DEF Renew
  <2>3. steps' = [steps EXCEPT ![p] = new] /\ runs' = [runs EXCEPT ![p] = runs[p] + 1]
    BY <1>2 DEF BeginRun
  <2>. HIDE DEF new
  <2>4. p \in Clearing => steps'[p] = [i \in 1..Blocks[p] |-> runs'[p]]
    BY <1>0, <2>2, <2>3
  <2>5. \A q \in Proc : q # p => steps'[q] = steps[q] /\ runs'[q] = runs[q]
    BY <1>0, <2>3
  <2>6. \A q \in Proc : q # p => pc'[q] = pc[q]
    <3>1. pc' = [pc EXCEPT ![p] = "remove"] \/ pc' = [pc EXCEPT ![p] = "handle"]
      BY <1>2 DEF BeginRun
    <3>. QED  BY <1>0, <3>1
  <2>7. FreshSteps'
    BY <2>4, <2>5, <2>6, ZenonT(40) DEF FreshSteps
  <2>. QED  BY <1>2, <2>7 DEF BeginRun, OneRunPerScript, Fresh, dirVars
<1>3. ASSUME NEW p \in Proc, Run(p)
      PROVE  FreshInv'
  <2>1. FreshSteps'
    BY <1>3, Calls DEF FreshSteps
  <2>2. ASSUME NEW n, WriteScript(p, n), queue' = queue
        PROVE  OneRunPerScript'
    <3>1. pc[p] # "idle" /\ target[p] \in Dir
      BY <1>0, <1>3, Calls
    <3>2. Fresh(Render(p, n))
      BY <3>1 DEF Fresh, Render, FreshSteps
    <3>3. \A d \in Dir : \A s \in scripts'[d] : Fresh(s)
      BY <1>0, <2>2, <3>2, WrittenScripts DEF OneRunPerScript
    <3>. QED  BY <2>2, <3>3 DEF OneRunPerScript, Fresh
  <2>3. CASE scripts' = scripts /\ queue' = queue
    BY <2>1, <2>3 DEF OneRunPerScript
  <2>4. CASE RemoveAll(p)
    <3>1. \A d \in Dir : scripts'[d] \subseteq scripts[d]
      BY <1>0, <2>4 DEF RemoveAll
    <3>. QED  BY <2>1, <2>4, <3>1 DEF RemoveAll, OneRunPerScript
  <2>5. CASE GenScript(p)
    <3>1. queue' = queue
      BY <2>5 DEF GenScript
    <3>2. scripts' = scripts \/ WriteScript(p, ScriptName(run_params[p].server))
      BY <2>5 DEF GenScript
    <3>. QED  BY <2>1, <2>2, <2>3, <3>1, <3>2
  <2>6. CASE GenBash(p)
    <3>1. queue' = queue /\ WriteScript(p, "sh")
      BY <2>6 DEF GenBash
    <3>. QED  BY <2>1, <2>2, <3>1
  <2>7. CASE ServerHandle(p)
    <3>1. target[p] \in Dir
      BY <1>0, <2>7 DEF ServerHandle
    <3>2. \A s \in Submittable(p) : Fresh(s)
      BY <3>1 DEF Submittable, OneRunPerScript
    <3>3. \A j \in queue' : j \in queue \/ \E s \in Submittable(p) : j.script = s
      BY <2>7 DEF ServerHandle
    <3>. QED  BY <2>1, <2>7, <3>2, <3>3 DEF ServerHandle, OneRunPerScript, dirVars
  <2>. QED
    BY <1>3, <2>3, <2>4, <2>5, <2>6, <2>7
    DEF Run, CreateDirectories, CopyXyz, SystemBash
<1>4. ASSUME NEW j \in queue, RunJob(j)
      PROVE  FreshInv'
  BY <1>4 DEF RunJob, OneRunPerScript, FreshSteps, Fresh, callVars
<1>5. CASE UNCHANGED vars
  BY <1>5 DEF vars, callVars, dirVars, OneRunPerScript, FreshSteps, Fresh
<1>. QED
  BY <1>1, <1>2, <1>3, <1>4, <1>5 DEF Next

(* Whatever the interleaving, a calculator that clears job.steps writes    *)
(* and submits scripts of one run() each.                                  *)
THEOREM ScriptsOfOneRun == Spec => []OneRunPerScript
<1>1. IType /\ FreshInv => OneRunPerScript
  BY DEF FreshInv
<1>2. Init => IType /\ FreshInv
  BY ITypeInit, FreshInit
<1>3. IType /\ FreshInv /\ [Next]_vars => (IType /\ FreshInv)'
  BY ITypeNext, FreshNext
<1>. QED  BY <1>1, <1>2, <1>3, PTL DEF Spec

-----------------------------------------------------------------------------
(* The names run() and server_handle give one script agree, and none of    *)
(* them is that of the bash script.                                        *)
LEMMA SameNames == \A s \in Known : SubmitName(s) = ScriptName(s) /\ ScriptName(s) # "sh"
  BY DEF Known, SubmitName, ScriptName

(* A call of p touches no directory but its own. *)
LEMMA Elsewhere ==
  ASSUME IType, NEW p \in Proc, Run(p), NEW d \in Dir, d # target[p]
  PROVE  kind'[d] = kind[d] /\ scripts'[d] = scripts[d] /\ copies'[d] = copies[d]
  <1>1. /\ kind \in [Dir -> {"absent", "directory", "regular"}]
        /\ scripts \in [Dir -> SUBSET Script]
        /\ copies \in [Dir -> SUBSET STRING]
    BY DEF IType, TypeOK
  <1>2. CASE RemoveAll(p)
    BY <1>1, <1>2 DEF RemoveAll
  <1>3. CASE CreateDirectories(p)
    BY <1>1, <1>3 DEF CreateDirectories
  <1>4. CASE CopyXyz(p)
    BY <1>1, <1>4 DEF CopyXyz
  <1>5. CASE GenScript(p)
    BY <1>1, <1>5 DEF GenScript, WriteScript
  <1>6. CASE GenBash(p)
    BY <1>1, <1>6 DEF GenBash, WriteScript
  <1>7. CASE SystemBash(p) \/ ServerHandle(p)
    BY <1>7 DEF SystemBash, ServerHandle, dirVars
  <1>. QED  BY <1>2, <1>3, <1>4, <1>5, <1>6, <1>7 DEF Run

LEMMA OwnInit == Init => OwnInv
<1>. SUFFICES ASSUME Init PROVE OwnInv
  OBVIOUS
<1>1. queue = {} /\ \A p \in Proc : pc[p] = "idle"
  BY DEF Init
<1>2. ScriptsInPlace
  BY DEF Init, ScriptsInPlace
<1>. QED  BY <1>1, <1>2 DEF OwnInv, UsersKnown, CrossedKnown, AloneReady, SubmittedIsOwn

LEMMA PlaceNext == IType /\ ScriptsInPlace /\ [Next]_vars => ScriptsInPlace'
<1>. SUFFICES ASSUME IType, ScriptsInPlace, [Next]_vars PROVE ScriptsInPlace'
  OBVIOUS
<1>0. scripts \in [Dir -> SUBSET Script]
  BY DEF IType, TypeOK
<1>1. CASE scripts' = scripts
  BY <1>1 DEF ScriptsInPlace
<1>2. ASSUME NEW p \in Proc, RemoveAll(p)
      PROVE  ScriptsInPlace'
  <2>1. \A d \in Dir : scripts'[d] \subseteq scripts[d]
    BY <1>0, <1>2 DEF RemoveAll
  <2>. QED  BY <2>1 DEF ScriptsInPlace
<1>3. ASSUME NEW p \in Proc, NEW n, WriteScript(p, n)
      PROVE  ScriptsInPlace'
  <2>. DEFINE t == target[p]
              new == Render(p, n)
  <2>1. new.dir = t
    BY DEF Render
  <2>. HIDE DEF new
  <2>2. scripts' = scripts \/ scripts' = [scripts EXCEPT ![t] = Written(scripts[t], new)]
    BY <1>3 DEF WriteScript, new
  <2>. SUFFICES ASSUME NEW d \in Dir, scripts'[d] # scripts[d]
                PROVE  /\ \A s \in scripts'[d] : s.dir = d
                       /\ \A s, u \in scripts'[d] : s.name = u.name => s = u
    BY DEF ScriptsInPlace
  <2>3. d = t /\ scripts'[d] = Written(scripts[d], new)
    BY <1>0, <2>2
  <2>. QED  BY <2>1, <2>3 DEF Written, ScriptsInPlace
<1>4. ASSUME NEW p \in Proc, Run(p)
      PROVE  ScriptsInPlace'
  <2>1. CASE GenScript(p)
    <3>1. scripts' = scripts \/ WriteScript(p, ScriptName(run_params[p].server))
      BY <2>1 DEF GenScript
    <3>. QED  BY <1>1, <1>3, <3>1
  <2>2. CASE GenBash(p)
    BY <1>3, <2>2 DEF GenBash
  <2>. QED  BY <1>1, <1>2, <1>4, <2>1, <2>2
            DEF Run, CreateDirectories, CopyXyz, SystemBash, ServerHandle, dirVars
<1>5. ASSUME NEW p \in Proc, NEW d \in Uses[p], BeginRun(p, d)
      PROVE  ScriptsInPlace'
  BY <1>1, <1>5 DEF BeginRun, dirVars
<1>6. ASSUME NEW p \in Proc,
             SetAutoLevel(p) \/ SetServer(p) \/ SetRunDefault(p) \/ GetXyz(p)
      PROVE  ScriptsInPlace'
  BY <1>1, <1>6, Settings DEF dirVars
<1>7. CASE (\E j \in queue : RunJob(j)) \/ UNCHANGED vars
  BY <1>1, <1>7 DEF RunJob, vars, dirVars
<1>. QED
  BY <1>4, <1>5, <1>6, <1>7 DEF Next

LEMMA UsersNext == IType /\ ScriptsInPlace /\ UsersKnown /\ [Next]_vars => UsersKnown'
<1>. SUFFICES ASSUME IType, ScriptsInPlace, UsersKnown, [Next]_vars PROVE UsersKnown'
  OBVIOUS
<1>0. /\ pc \in [Proc -> Phases]
      /\ target \in [Proc -> Dir \cup {NoDir}]
      /\ users \in [Dir -> SUBSET Proc]
      /\ run_params \in [Proc -> [auto_level: {0} \cup Level,
                                  server: {""} \cup Server, xyz_file: BOOLEAN]]
      /\ \A q \in Proc : pc[q] # "idle" => target[q] \in Dir
  BY DEF IType, TypeOK, InCall
<1>1. ASSUME NEW p \in Proc,
             SetAutoLevel(p) \/ SetServer(p) \/ SetRunDefault(p) \/ GetXyz(p)
      PROVE  UsersKnown'
  <2>1. pc[p] = "idle" /\ UNCHANGED <<pc, target, users, queue>>
    BY <1>1, Settings
  <2>2. \A q \in Proc : q # p => run_params'[q] = run_params[q]
    BY <1>0, <1>1, Settings
  <2>. QED  BY <2>1, <2>2 DEF UsersKnown, Generating
<1>2. ASSUME NEW p \in Proc, NEW d \in Uses[p], BeginRun(p, d)
      PROVE  UsersKnown'
  <2>1. d \in Dir
    BY JobAssumption DEF JobAssumption
  <2>2. UNCHANGED <<run_params, queue>> /\ target' = [target EXCEPT ![p] = d]
    BY <1>2 DEF BeginRun
  <2>3. CASE Generating(p)
    <3>1. /\ pc' = [pc EXCEPT ![p] = "remove"]
          /\ users' = [users EXCEPT ![d] = users[d] \cup {p}]
      BY <1>2, <2>3 DEF BeginRun, Generating
    <3>2. \A e \in Dir : users[e] \subseteq users'[e]
      BY <1>0, <3>1
    <3>3. \A q \in Proc : pc'[q] # "idle" /\ Generating(q)' => q \in users'[target'[q]]
      BY <1>0, <2>1, <2>2, <3>1, <3>2 DEF UsersKnown, Generating
    <3>4. \A j \in queue : j.script.dir \in Dir
      BY DEF IType, TypeOK, Job, Script
    <3>. QED  BY <1>0, <2>2, <2>3, <3>1, <3>2, <3>3, <3>4 DEF UsersKnown, Generating
  <2>4. CASE ~Generating(p)
    <3>1. pc' = [pc EXCEPT ![p] = "handle"] /\ users' = users
      BY <1>2, <2>4 DEF BeginRun, Generating, history
    <3>. QED  BY <1>0, <2>2, <2>4, <3>1 DEF UsersKnown, Generating
  <2>. QED  BY <2>3, <2>4
<1>3. ASSUME NEW p \in Proc, Run(p)
      PROVE  UsersKnown'
  <2>1. /\ pc[p] # "idle" /\ UNCHANGED <<run_params, target, users>>
        /\ \A q \in Proc : q # p => pc'[q] = pc[q]
    BY <1>3, Calls
  <2>2. pc'[p] \in {"idle", "handle"} \/ pc[p] \in Phases \ {"idle", "handle"}
    BY <1>0, <1>3 DEF Run, RemoveAll, CreateDirectories, CopyXyz, Throw, GenScript,
                      GenBash, SystemBash, ServerHandle, Phases
  <2>3. \A j \in queue' : j.by \in users[j.script.dir]
    <3>1. CASE ServerHandle(p)
      <4>1. \A s \in Submittable(p) : s.dir = target[p] /\ Generating(p)
        <5>1. ASSUME NEW s \in Submittable(p)
              PROVE  s \in scripts[target[p]] /\ run_params[p].auto_level = 3
          BY DEF Submittable
        <5>2. 3 \in 1..6
          OBVIOUS
        <5>. QED  BY <1>0, <2>1, <5>1, <5>2 DEF ScriptsInPlace, Generating, Generates
      <4>2. \A j \in queue' :
              j \in queue \/ \E s \in Submittable(p) : j.script = s /\ j.by = p
        BY <3>1 DEF ServerHandle
      <4>. QED  BY <2>1, <4>1, <4>2 DEF UsersKnown
    <3>2. CASE queue' = queue
      BY <3>2 DEF UsersKnown
    <3>. QED  BY <1>3, <3>1, <3>2 DEF Run, RemoveAll, CreateDirectories, CopyXyz,
                                      GenScript, GenBash, SystemBash
  <2>. QED  BY <2>1, <2>2, <2>3 DEF UsersKnown, Generating
<1>4. ASSUME NEW j \in queue, RunJob(j)
      PROVE  UsersKnown'
  BY <1>4 DEF RunJob, UsersKnown, Generating, callVars, history
<1>5. CASE UNCHANGED vars
  BY <1>5 DEF vars, callVars, history, UsersKnown, Generating
<1>. QED
  BY <1>1, <1>2, <1>3, <1>4, <1>5 DEF Next

(* Of two calculators in one directory at one time both are marked.        *)
LEMMA CrossedNext == IType /\ UsersKnown /\ CrossedKnown /\ [Next]_vars => CrossedKnown'
<1>. SUFFICES ASSUME IType, UsersKnown, CrossedKnown, [Next]_vars PROVE CrossedKnown'
  OBVIOUS
<1>0. /\ pc \in [Proc -> Phases]
      /\ target \in [Proc -> Dir \cup {NoDir}]
      /\ users \in [Dir -> SUBSET Proc]
      /\ run_params \in [Proc -> [auto_level: {0} \cup Level,
                                  server: {""} \cup Server, xyz_file: BOOLEAN]]
      /\ \A q \in Proc : pc[q] # "idle" => target[q] \in Dir
      /\ crossed \subseteq Proc
  BY DEF IType, TypeOK, InCall
<1>. DEFINE Busy(q) == pc[q] # "idle" /\ Generating(q)
<1>1. ASSUME UNCHANGED <<target, users, crossed>>,
             \A q \in Proc : Busy(q)' => Busy(q)
      PROVE  CrossedKnown'
  <2>1. \A q \in Proc, d \in Dir : Others(q, d)' \subseteq Others(q, d)
    BY <1>1 DEF Others
  <2>2. ASSUME NEW q \in Proc, Busy(q)'
        PROVE  /\ Others(q, target[q])' # {} => q \in crossed
               /\ q \in crossed => users[target[q]] # {q}
    <3>1. Busy(q) /\ target[q] \in Dir
      BY <1>0, <1>1, <2>2
    <3>2. Others(q, target[q])' \subseteq Others(q, target[q])
      BY <1>1, <2>1, <3>1 DEF Others
    <3>. QED  BY <3>1, <3>2 DEF CrossedKnown
  <2>. QED  BY <1>1, <2>2 DEF CrossedKnown
<1>2. ASSUME NEW p \in Proc,
             SetAutoLevel(p) \/ SetServer(p) \/ SetRunDefault(p) \/ GetXyz(p)
      PROVE  CrossedKnown'
  <2>1. pc[p] = "idle" /\ UNCHANGED <<pc, target, users, crossed>>
    BY <1>2, Settings
  <2>2. \A q \in Proc : q # p => run_params'[q] = run_params[q]
    BY <1>0, <1>2, Settings
  <2>3. \A q \in Proc : Busy(q)' => Busy(q)
    BY <2>1, <2>2 DEF Generating
  <2>. QED  BY <1>1, <2>1, <2>3
<1>3. ASSUME NEW p \in Proc, NEW d \in Uses[p], BeginRun(p, d)
      PROVE  CrossedKnown'
  <2>1. d \in Dir /\ pc[p] = "idle"
    BY <1>3, JobAssumption DEF JobAssumption, BeginRun
  <2>2. run_params' = run_params /\ target' = [target EXCEPT ![p] = d]
    BY <1>3 DEF BeginRun
  <2>3. \A q \in Proc : q # p => target'[q] = target[q]
    BY <1>0, <2>2
  <2>4. CASE ~ Generating(p)
    <3>1. pc' = [pc EXCEPT ![p] = "handle"] /\ users' = users /\ crossed' = crossed
      BY <1>3, <2>4 DEF BeginRun, Generating, history
    <3>2. ~ Generating(p)' /\ \A q \in Proc : q # p => (Busy(q)' <=> Busy(q))
      BY <1>0, <2>2, <2>4, <3>1 DEF Generating
    <3>3. ASSUME NEW q \in Proc, Busy(q)'
          PROVE  /\ Others(q, target[q])' # {} => q \in crossed
                 /\ q \in crossed => users[target'[q]] # {q}
      <4>1. q # p /\ Busy(q) /\ target'[q] = target[q]
        BY <2>3, <3>2, <3>3
      <4>2. Others(q, target[q])' \subseteq Others(q, target[q])
        BY <2>3, <3>2, <4>1 DEF Others
      <4>. QED  BY <4>1, <4>2 DEF CrossedKnown
    <3>. QED  BY <3>1, <3>3 DEF CrossedKnown, Others
  <2>5. CASE Generating(p)
    <3>1. /\ pc' = [pc EXCEPT ![p] = "remove"]
          /\ users' = [users EXCEPT ![d] = users[d] \cup {p}]
          /\ crossed' = IF Others(p, d) = {} THEN crossed \ {p}
                        ELSE crossed \cup Others(p, d) \cup {p}
      BY <1>3, <2>5 DEF BeginRun, Generating
    <3>2. \A q \in Proc : q # p => (Busy(q)' <=> Busy(q))
      BY <1>0, <2>2, <3>1 DEF Generating
    <3>3. users'[d] = users[d] \cup {p} /\ \A e \in Dir : users[e] \subseteq users'[e]
      BY <1>0, <2>1, <3>1
    <3>4. /\ Others(p, target[p])' # {} => p \in crossed'
          /\ p \in crossed' => users'[target'[p]] # {p}
      <4>1. target'[p] = d
        BY <1>0, <2>2
      <4>2. Others(p, target[p])' = Others(p, d)
        BY <2>3, <3>2, <4>1 DEF Others
      <4>3. ASSUME NEW q \in Others(p, d) PROVE q \in users'[d] /\ q # p
        BY <3>3 DEF Others, UsersKnown
      <4>. QED  BY <3>1, <4>1, <4>2, <4>3
    <3>5. ASSUME NEW q \in Proc, q # p, Busy(q)'
          PROVE  /\ Others(q, target[q])' # {} => q \in crossed'
                 /\ q \in crossed' => users'[target'[q]] # {q}
      <4>1. Busy(q) /\ target'[q] = target[q] /\ target[q] \in Dir
        BY <1>0, <2>3, <3>2, <3>5
      <4>2. CASE target[q] = d
        <5>1. q \in Others(p, d) /\ q \in crossed'
          BY <3>1, <3>5, <4>1, <4>2 DEF Others
        <5>2. p \in users'[d]
          BY <3>3
        <5>. QED  BY <3>5, <4>1, <4>2, <5>1, <5>2
      <4>3. CASE target[q] # d
        <5>1. q \notin Others(p, d) /\ (q \in crossed' <=> q \in crossed)
          BY <3>1, <3>5, <4>3 DEF Others
        <5>2. Others(q, target[q])' \subseteq Others(q, target[q])
          <6>1. target'[p] = d
            BY <1>0, <2>2
          <6>. QED  BY <2>3, <3>2, <4>1, <4>3, <6>1 DEF Others
        <5>3. users'[target[q]] = users[target[q]]
          BY <1>0, <3>1, <4>1, <4>3
        <5>. QED  BY <4>1, <5>1, <5>2, <5>3 DEF CrossedKnown
      <4>. QED  BY <4>2, <4>3
    <3>. QED  BY <3>4, <3>5 DEF CrossedKnown
  <2>. QED  BY <2>4, <2>5
<1>4. ASSUME NEW p \in Proc, Run(p)
      PROVE  CrossedKnown'
  <2>1. /\ pc[p] # "idle" /\ UNCHANGED <<run_params, target, users, crossed>>
        /\ \A q \in Proc : q # p => pc'[q] = pc[q]
    BY <1>4, Calls
  <2>2. \A q \in Proc : Busy(q)' => Busy(q)
    BY <2>1 DEF Generating
  <2>. QED  BY <1>1, <2>1, <2>2
<1>5. ASSUME NEW j \in queue, RunJob(j)
      PROVE  CrossedKnown'
  BY <1>1, <1>5 DEF RunJob, Generating, callVars, history
<1>6. CASE UNCHANGED vars
  BY <1>1, <1>6 DEF vars, callVars, history, Generating
<1>. QED
  BY <1>2, <1>3, <1>4, <1>5, <1>6 DEF Next

(* Nothing that another calculator does reaches the directory of a run()   *)
(* that is alone in it.                                                    *)
LEMMA AloneUntouched ==
  ASSUME IType, UsersKnown, CrossedKnown, NEW p \in Proc, NEW q \in Proc, p # q, Run(p),
         pc[q] # "idle", Alone(q), AloneReady, Generating(q)
  PROVE  Ready(q)'
  <1>1. /\ pc[p] # "idle" /\ pc'[q] = pc[q]
        /\ UNCHANGED <<run_params, target, runs>>
    BY Calls
  <1>2. target[q] \in Dir /\ target[p] \in Dir
    BY <1>1 DEF IType, InCall
  <1>3. Ready(q)
    BY DEF AloneReady
  <1>4. CASE target[p] # target[q]
    <2>1. /\ kind'[target[q]] = kind[target[q]]
          /\ scripts'[target[q]] = scripts[target[q]]
          /\ copies'[target[q]] = copies[target[q]]
      BY <1>2, <1>4, Elsewhere
    <2>. QED  BY <1>1, <1>3, <2>1 DEF Ready
  <1>5. CASE target[p] = target[q]
    <2>1. Others(q, target[q]) = {}
      BY DEF Alone, CrossedKnown
    <2>2. ~Generating(p)
      BY <1>1, <1>5, <2>1 DEF Others
    <2>3. pc \in [Proc -> Phases]
      BY DEF IType, TypeOK
    <2>4. pc[p] = "handle"
      BY <1>1, <2>2, <2>3 DEF UsersKnown
    <2>5. ServerHandle(p)
      BY <2>4 DEF Run, RemoveAll, CreateDirectories, CopyXyz, GenScript, GenBash, SystemBash
    <2>. QED  BY <1>1, <1>3, <2>5 DEF ServerHandle, dirVars, Ready
  <1>. QED  BY <1>4, <1>5

(* The calls of a run() that is alone establish what the next one needs.   *)
LEMMA AloneAdvances ==
  ASSUME IType, UsersKnown, NEW p \in Proc, Run(p), Generating(p), Alone(p), AloneReady,
         pc'[p] # "idle"
  PROVE  Ready(p)'
  <1>. DEFINE d == target[p]
              s == run_params[p].server
  <1>1. /\ pc[p] # "idle"
        /\ UNCHANGED <<run_params, target, runs>>
    BY Calls
  <1>2. d \in Dir /\ Ready(p)
    BY <1>1 DEF IType, InCall, AloneReady
  <1>3. /\ pc \in [Proc -> Phases]
        /\ kind \in [Dir -> {"absent", "directory", "regular"}]
        /\ scripts \in [Dir -> SUBSET Script]
        /\ copies \in [Dir -> SUBSET STRING]
    BY DEF IType, TypeOK
  <1>. USE DEF Prepared, Generated
  <1>4. CASE RemoveAll(p)
    <2>1. kind'[d] = "absent" /\ copies'[d] = {} /\ pc'[p] = "create"
      BY <1>2, <1>3, <1>4 DEF RemoveAll
    <2>. QED  BY <1>1, <2>1 DEF Ready
  <1>5. CASE CreateDirectories(p)
    <2>1. /\ kind' = [kind EXCEPT ![d] = "directory"]
          /\ pc' = [pc EXCEPT ![p] = "copy"]
          /\ copies' = copies /\ pc[p] = "create"
      BY <1>3, <1>5 DEF CreateDirectories, Throw
    <2>. QED  BY <1>1, <1>2, <1>3, <2>1 DEF Ready
  <1>6. CASE CopyXyz(p)
    <2>1. kind[d] = "directory"
      BY <1>2, <1>6 DEF CopyXyz, Ready
    <2>2. /\ pc' = [pc EXCEPT ![p] = "script"]
          /\ kind' = [kind EXCEPT ![d] = @]
          /\ copies' = [copies EXCEPT ![d] = @ \cup {XyzName[p]}]
      BY <1>3, <1>6, <2>1 DEF CopyXyz, Throw
    <2>. QED  BY <1>1, <1>2, <1>3, <2>1, <2>2 DEF Ready
  <1>7. ASSUME NEW n, WriteScript(p, n), pc[p] \in Prepared
        PROVE  scripts' = [scripts EXCEPT ![d] = Written(@, Render(p, n))]
    BY <1>2, <1>7 DEF WriteScript, Ready
  <1>8. ASSUME NEW n, n = ScriptName(s)
        PROVE  Render(p, n).name = n /\ Render(p, n).by = p /\ Render(p, n).run = runs[p]
    BY DEF Render
  <1>9. CASE GenScript(p)
    <2>1. /\ pc[p] = "script" /\ pc'[p] \in {"bash", "handle"}
          /\ UNCHANGED <<kind, copies>>
      BY <1>3, <1>9 DEF GenScript
    <2>2. s \in Known => \E f \in scripts'[d] :
            f.name = ScriptName(s) /\ f.by = p /\ f.run = runs[p]
      <3>. SUFFICES ASSUME s \in Known
                    PROVE  \E f \in scripts'[d] :
                             f.name = ScriptName(s) /\ f.by = p /\ f.run = runs[p]
        OBVIOUS
      <3>1. WriteScript(p, ScriptName(s))
        BY <1>9 DEF GenScript
      <3>2. scripts' = [scripts EXCEPT ![d] = Written(@, Render(p, ScriptName(s)))]
        BY <1>7, <2>1, <3>1
      <3>3. Render(p, ScriptName(s)) \in scripts'[d]
        BY <1>2, <1>3, <3>2 DEF Written
      <3>. QED  BY <1>8, <3>3
    <2>. QED  BY <1>1, <1>2, <2>1, <2>2 DEF Ready
  <1>10. CASE GenBash(p)
    <2>1. pc[p] = "bash" /\ pc'[p] = "system" /\ UNCHANGED <<kind, copies>>
      BY <1>3, <1>10 DEF GenBash
    <2>2. scripts' = [scripts EXCEPT ![d] = Written(@, Render(p, "sh"))]
      BY <1>7, <1>10, <2>1 DEF GenBash
    <2>3. \A f \in scripts[d] : f.name # "sh" => f \in scripts'[d]
      BY <1>2, <1>3, <2>2 DEF Written, Render
    <2>4. s \in Known => \E f \in scripts[d] :
            f.name = ScriptName(s) /\ f.by = p /\ f.run = runs[p]
      BY <1>2, <2>1 DEF Ready
    <2>5. s \in Known => \E f \in scripts'[d] :
            f.name = ScriptName(s) /\ f.by = p /\ f.run = runs[p]
      BY <2>3, <2>4, SameNames
    <2>. QED  BY <1>1, <1>2, <2>1, <2>5 DEF Ready
  <1>11. CASE SystemBash(p)
    BY <1>1, <1>2, <1>3, <1>11 DEF SystemBash, Ready
  <1>12. CASE ServerHandle(p)
    BY <1>3, <1>12 DEF ServerHandle
  <1>. QED  BY <1>4, <1>5, <1>6, <1>9, <1>10, <1>11, <1>12 DEF Run

LEMMA ReadyNext == IType /\ UsersKnown /\ CrossedKnown /\ AloneReady /\ [Next]_vars => AloneReady'
<1>. SUFFICES ASSUME IType, UsersKnown, CrossedKnown, AloneReady, [Next]_vars PROVE AloneReady'
  OBVIOUS
<1>0. /\ pc \in [Proc -> Phases]
      /\ target \in [Proc -> Dir \cup {NoDir}]
      /\ users \in [Dir -> SUBSET Proc]
      /\ run_params \in [Proc -> [auto_level: {0} \cup Level,
                                  server: {""} \cup Server, xyz_file: BOOLEAN]]
      /\ runs \in [Proc -> Nat]
      /\ \A q \in Proc : pc[q] # "idle" => target[q] \in Dir
  BY DEF IType, TypeOK, InCall
<1>1. ASSUME NEW p \in Proc,
             SetAutoLevel(p) \/ SetServer(p) \/ SetRunDefault(p) \/ GetXyz(p)
      PROVE  AloneReady'
  <2>1. pc[p] = "idle" /\ UNCHANGED <<pc, target, crossed, runs, kind, scripts, copies>>
    BY <1>1, Settings DEF dirVars
  <2>2. \A q \in Proc : q # p => run_params'[q] = run_params[q]
    BY <1>0, <1>1, Settings
  <2>. QED  BY <2>1, <2>2 DEF AloneReady, Ready, Generating, Alone
<1>2. ASSUME NEW p \in Proc, NEW d \in Uses[p], BeginRun(p, d)
      PROVE  AloneReady'
  <2>1. d \in Dir
    BY JobAssumption DEF JobAssumption
  <2>2. /\ UNCHANGED <<run_params, kind, scripts, copies>>
        /\ target' = [target EXCEPT ![p] = d]
        /\ runs' = [runs EXCEPT ![p] = runs[p] + 1]
    BY <1>2 DEF BeginRun, dirVars
  <2>3. \/ pc' = [pc EXCEPT ![p] = "remove"]
        \/ pc' = [pc EXCEPT ![p] = "handle"] /\ ~Generating(p)
    BY <1>2 DEF BeginRun, Generating
  <2>4. pc'[p] # "idle" /\ Generating(p)' => Ready(p)'
    BY <1>0, <2>2, <2>3 DEF Ready, Generating, Prepared, Generated
  <2>5. ASSUME NEW q \in Proc, q # p, pc'[q] # "idle", Generating(q)', Alone(q)'
        PROVE  Ready(q)'
    <3>1. /\ pc'[q] = pc[q] /\ target'[q] = target[q] /\ runs'[q] = runs[q]
          /\ target[q] \in Dir
      BY <1>0, <2>2, <2>3, <2>5
    <3>3. q \notin crossed
      BY <1>2, <2>5 DEF BeginRun, Alone, history
    <3>4. Ready(q)
      BY <2>2, <2>5, <3>1, <3>3 DEF AloneReady, Alone, Generating
    <3>. QED  BY <2>2, <3>1, <3>4 DEF Ready
  <2>. QED  BY <2>4, <2>5 DEF AloneReady
<1>3. ASSUME NEW p \in Proc, Run(p)
      PROVE  AloneReady'
  <2>. SUFFICES ASSUME NEW q \in Proc, pc'[q] # "idle", Generating(q)', Alone(q)'
                PROVE  Ready(q)'
    BY DEF AloneReady
  <2>1. UNCHANGED <<run_params, target, crossed>>
    BY <1>3, Calls
  <2>2. Generating(q) /\ Alone(q)
    BY <2>1 DEF Generating, Alone
  <2>3. CASE q = p
    BY <1>3, <2>2, <2>3, AloneAdvances
  <2>4. CASE q # p
    <3>1. pc[q] # "idle"
      BY <1>3, <2>4, Calls
    <3>. QED  BY <1>3, <2>2, <2>4, <3>1, AloneUntouched
  <2>. QED  BY <2>3, <2>4
<1>4. ASSUME NEW j \in queue, RunJob(j)
      PROVE  AloneReady'
  BY <1>4 DEF RunJob, AloneReady, Ready, Generating, Alone, callVars, history
<1>5. CASE UNCHANGED vars
  BY <1>5 DEF vars, callVars, dirVars, history, AloneReady, Ready, Generating, Alone
<1>. QED
  BY <1>1, <1>2, <1>3, <1>4, <1>5 DEF Next

LEMMA SubmitNext == IType /\ OwnInv /\ [Next]_vars => SubmittedIsOwn'
<1>. SUFFICES ASSUME IType, OwnInv, [Next]_vars PROVE SubmittedIsOwn'
  OBVIOUS
<1>. USE DEF OwnInv
<1>0. /\ users \in [Dir -> SUBSET Proc]
      /\ \A q \in Proc : pc[q] # "idle" => target[q] \in Dir
      /\ \A j \in queue : j.script.dir \in Dir /\ j.by \in users[j.script.dir]
  BY DEF IType, TypeOK, InCall, Job, Script, UsersKnown
<1>1. ASSUME queue' \subseteq queue, \A d \in Dir : users[d] \subseteq users'[d]
      PROVE  SubmittedIsOwn'
  BY <1>0, <1>1 DEF SubmittedIsOwn
<1>2. ASSUME NEW p \in Proc, ServerHandle(p)
      PROVE  SubmittedIsOwn'
  <2>. DEFINE d == target[p]
              k == run_params[p].server
  <2>1. pc[p] = "handle" /\ users' = users /\ d \in Dir
    BY <1>0, <1>2 DEF ServerHandle, history
  <2>2. ASSUME NEW s \in Submittable(p), users[d] = {p}
        PROVE  s.by = p /\ s.run = runs[p]
    <3>1. s \in scripts[d] /\ k \in Known /\ s.name = ScriptName(k) /\ run_params[p].auto_level = 3
      BY SameNames DEF Submittable
    <3>2. Generating(p)
      BY <3>1 DEF Generating, Generates
    <3>3. Ready(p)
      BY <2>1, <2>2, <3>2 DEF AloneReady, CrossedKnown, Alone
    <3>4. PICK f \in scripts[d] : f.name = ScriptName(k) /\ f.by = p /\ f.run = runs[p]
      BY <2>1, <3>1, <3>3 DEF Ready, Generated, Prepared
    <3>5. f = s
      BY <2>1, <3>1, <3>4 DEF ScriptsInPlace
    <3>. QED  BY <3>4, <3>5
  <2>3. \A s \in Submittable(p) : s.dir = d
    BY <2>1 DEF Submittable, ScriptsInPlace
  <2>4. \A j \in queue' : j \in queue \/
            \E s \in Submittable(p) : j.script = s /\ j.by = p /\ j.run = runs[p]
    BY <1>2 DEF ServerHandle
  <2>. QED  BY <2>1, <2>2, <2>3, <2>4 DEF SubmittedIsOwn
<1>3. ASSUME NEW p \in Proc, NEW d \in Uses[p], BeginRun(p, d)
      PROVE  SubmittedIsOwn'
  <2>1. users' = users \/ users' = [users EXCEPT ![d] = @ \cup {p}]
    BY <1>3 DEF BeginRun, history
  <2>2. queue' = queue
    BY <1>3 DEF BeginRun
  <2>. QED  BY <1>0, <1>1, <2>1, <2>2
<1>4. ASSUME NEW p \in Proc, Run(p)
      PROVE  SubmittedIsOwn'
  <2>1. users' = users
    BY <1>4, Calls
  <2>2. ServerHandle(p) \/ queue' = queue
    BY <1>4 DEF Run, RemoveAll, CreateDirectories, CopyXyz, GenScript, GenBash, SystemBash
  <2>. QED  BY <1>1, <1>2, <2>1, <2>2
<1>5. CASE \E j \in queue : RunJob(j)
  BY <1>1, <1>5 DEF RunJob, history
<1>6. ASSUME NEW p \in Proc,
             SetAutoLevel(p) \/ SetServer(p) \/ SetRunDefault(p) \/ GetXyz(p)
      PROVE  SubmittedIsOwn'
  BY <1>1, <1>6, Settings
<1>7. CASE UNCHANGED vars
  BY <1>1, <1>7 DEF vars, history
<1>. QED
  BY <1>3, <1>4, <1>5, <1>6, <1>7 DEF Next

LEMMA OwnNext == IType /\ OwnInv /\ [Next]_vars => OwnInv'
  BY PlaceNext, UsersNext, CrossedNext, ReadyNext, SubmitNext DEF OwnInv

LEMMA OwnInductive == Spec => [](IType /\ OwnInv)
<1>1. Init => IType /\ OwnInv
  BY ITypeInit, OwnInit
<1>2. IType /\ OwnInv /\ [Next]_vars => (IType /\ OwnInv)'
  BY ITypeNext, OwnNext
<1>. QED  BY <1>1, <1>2, PTL DEF Spec

(* However runs and jobs interleave, a job that a calculator submitted     *)
(* from a directory of its own carries the script of the very run() that   *)
(* submitted it.                                                           *)
THEOREM JobsAreOfTheirRun == Spec => []SubmittedIsOwn
<1>1. IType /\ OwnInv => SubmittedIsOwn
  BY DEF OwnInv
<1>. QED  BY <1>1, OwnInductive, PTL

(* A run() that generates, and that no other run() of its directory        *)
(* overlaps, comes to server_handle with the structure file and its script *)
(* in place, whoever used the directory before.                            *)
THEOREM RunsDeliver == Spec => []DeliveredRun
<1>1. IType /\ OwnInv => DeliveredRun
  <2>. SUFFICES ASSUME IType, OwnInv, NEW p \in Proc,
                       pc[p] = "handle", Generating(p), Alone(p)
                PROVE  /\ XyzName[p] \in copies[target[p]]
                       /\ run_params[p].server \in Known =>
                           \E s \in scripts[target[p]] :
                               /\ s.name = SubmitName(run_params[p].server)
                               /\ s.by = p
                               /\ s.run = runs[p]
    BY DEF DeliveredRun
  <2>1. Ready(p)
    BY DEF OwnInv, AloneReady
  <2>. QED  BY <2>1, SameNames DEF Ready, Prepared, Generated
<1>. QED  BY <1>1, OwnInductive, PTL

(* A run() that no other one overlaps finds nothing in the way of          *)
(* create_directories or copy: it throws only when the structure file was  *)
(* not given or is gone.                                                   *)
LEMMA ThrowStep == IType /\ OwnInv /\ [Next]_vars =>
    [\A p \in Proc :
        pc[p] \in {"create", "copy"} /\ pc'[p] = "idle" /\ Alone(p) =>
            ~run_params[p].xyz_file \/ p \notin source]_vars
<1>. SUFFICES ASSUME IType, OwnInv, [Next]_vars, NEW p \in Proc,
                     pc[p] \in {"create", "copy"}, pc'[p] = "idle", Alone(p)
              PROVE  ~run_params[p].xyz_file \/ p \notin source
  OBVIOUS
<1>. DEFINE d == target[p]
<1>1. pc \in [Proc -> Phases] /\ kind \in [Dir -> {"absent", "directory", "regular"}]
  BY DEF IType, TypeOK
<1>2. Ready(p)
  <2>1. Generating(p)
    BY <1>1 DEF OwnInv, UsersKnown
  <2>. QED  BY <2>1 DEF OwnInv, AloneReady
<1>3. Run(p)
  <2>1. ASSUME NEW q \in Proc,
               SetAutoLevel(q) \/ SetServer(q) \/ SetRunDefault(q) \/ GetXyz(q)
        PROVE  FALSE
    BY <2>1, Settings
  <2>2. ASSUME NEW q \in Proc, NEW e \in Uses[q], BeginRun(q, e)
        PROVE  FALSE
    BY <1>1, <2>2 DEF BeginRun
  <2>3. ASSUME NEW q \in Proc, q # p, Run(q)
        PROVE  FALSE
    BY <2>3, Calls
  <2>4. ASSUME NEW j \in queue, RunJob(j)
        PROVE  FALSE
    BY <2>4 DEF RunJob
  <2>5. ASSUME UNCHANGED vars
        PROVE  FALSE
    BY <2>5 DEF vars
  <2>. QED  BY <2>1, <2>2, <2>3, <2>4, <2>5 DEF Next
<1>4. CASE pc[p] = "create"
  <2>1. CreateDirectories(p)
    BY <1>3, <1>4 DEF Run, RemoveAll, CopyXyz, GenScript, GenBash, SystemBash, ServerHandle
  <2>2. kind[d] # "regular"
    BY <1>2, <1>4 DEF Ready
  <2>3. pc'[p] = "copy"
    BY <1>1, <2>1, <2>2 DEF CreateDirectories
  <2>. QED  BY <2>3
<1>5. CASE pc[p] = "copy"
  <2>1. CopyXyz(p)
    BY <1>3, <1>5 DEF Run, RemoveAll, CreateDirectories, GenScript, GenBash, SystemBash,
                      ServerHandle
  <2>2. kind[d] = "directory" /\ XyzName[p] \notin copies[d]
    BY <1>2, <1>5 DEF Ready
  <2>3. CASE run_params[p].xyz_file /\ p \in source
    <3>1. pc'[p] = "script"
      BY <1>1, <2>1, <2>2, <2>3 DEF CopyXyz
    <3>. QED  BY <3>1
  <2>. QED  BY <2>3
<1>. QED  BY <1>4, <1>5

(* Whatever other calculators do elsewhere, or did here before, a run()    *)
(* that none of them overlaps never throws while its structure file is     *)
(* there.                                                                  *)
THEOREM ThrowsHaveCause == Spec => ThrowNeedsCause
<1>1. IType /\ OwnInv /\ [Next]_vars =>
        [\A p \in Proc :
            pc[p] \in {"create", "copy"} /\ pc'[p] = "idle" /\ Alone(p) =>
                ~run_params[p].xyz_file \/ p \notin source]_vars
  BY ThrowStep
<1>. QED  BY <1>1, OwnInductive, PTL DEF Spec, ThrowNeedsCause
=============================================================================
