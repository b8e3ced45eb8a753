------------------------------ MODULE Keywords ------------------------------
(***************************************************************************)
(* What the input classes of the calculators share: named values           *)
(* (Variable) in groups (VariableGroup), tables of words (cards and        *)
(* blocks), and the steps of the job's script.  A document is a function   *)
(* from places <<group, key>> to nodes; a word is a string.                *)
(*                                                                         *)
(* A call of a class's interface is a sequence of edits, performed in      *)
(* order on an object [doc, steps, written, end]:                          *)
(*   steps    job.steps, each with the document of its time                *)
(*   written  the steps of the last script written: job.run's              *)
(*   end      "going", "raised" (a Python exception), "exited" (the        *)
(*            process), "undefined" (undefined behaviour in C++)           *)
(* job.run generates files, which needs the structure file                 *)
(* (JobScheduler models it).                                               *)
(***************************************************************************)
EXTENDS Integers, Sequences, SequencesExt

CONSTANT AtomsOf(_) \* the number of atoms of a structure file

Empty == [at \in {} |-> <<>>]

(* A node: rows of words, whether it is printed, a card's option, and the  *)
(* size an Octopus block was last told.                                    *)
Node(rows) == [rows |-> rows, on |-> TRUE, option |-> "", size |-> <<0, 0>>]

Object == [doc |-> Empty, steps |-> <<>>, written |-> <<>>, end |-> "going"]

Has(doc, at) == at \in DOMAIN doc

NodeAt(doc, at) == IF Has(doc, at) THEN doc[at] ELSE Node(<<>>)

Put(doc, at, node) == (at :> node) @@ doc

(* Whether a place and its group are switched on.                          *)
IsOn(doc, at) ==
    /\ Has(doc, at)
    /\ doc[at].on
    /\ Has(doc, <<at[1], "">>) => doc[<<at[1], "">>].on

RowsAt(doc, at) == NodeAt(doc, at).rows

(* Variable::to(std::string&) and the like take the first word.            *)
FirstWord(doc, at) == doc[at].rows[1][1]

-----------------------------------------------------------------------------
(* set_block_data_size and set_card_data_size: tables only grow. *)
Larger(a, b) == IF a > b THEN a ELSE b

Widened(row, m) == row \o [j \in 1..(Larger(m, Len(row)) - Len(row)) |-> ""]

Sized(rows, n, m) ==
    [i \in 1..Larger(n, Len(rows)) |-> Widened(IF i <= Len(rows) THEN rows[i] ELSE <<>>, m)]

(* A row of a table is replaced, the rest of it blanked; other rows stay.  *)
RowSet(rows, words, i) ==
    [Sized(rows, i, Len(words)) EXCEPT ![i] =
        [j \in DOMAIN @ |-> IF j <= Len(words) THEN words[j] ELSE ""]]

CellSet(rows, word, i, j) == [Sized(rows, i, j) EXCEPT ![i][j] = word]

(* add_keyword of NWChem's directives. *)
WordsAdded(rows, words) ==
    IF rows = <<>> THEN <<words>> ELSE [rows EXCEPT ![1] = @ \o words]

-----------------------------------------------------------------------------
(* The edits.  VariableGroup::set_param removes the variable of the key    *)
(* and makes a new one, which is switched on; Variable::set replaces the   *)
(* value whatever its type.                                                *)
Edit(do, at, words, i, j) == [do |-> do, at |-> at, words |-> words, i |-> i, j |-> j]

SetParam(group, key, words) == Edit("set_param", <<group, key>>, words, 0, 0)
SetRow(at, words, i) == Edit("set_row", at, words, i, 0)
SetCell(at, word, i, j) == Edit("set_cell", at, <<word>>, i, j)
SetOption(at, word) == Edit("set_option", at, <<word>>, 0, 0)
AddWords(at, words) == Edit("add_words", at, words, 0, 0)
SetWords(at, words) == Edit("set_words", at, words, 0, 0)
Forget(at) == Edit("remove", at, <<>>, 0, 0)
TurnOff(at) == Edit("turn_off", at, <<>>, 0, 0)
TurnOffIfSet(at) == Edit("turn_off_if_set", at, <<>>, 0, 0)
ClearSteps == Edit("clear", <<"job", "steps">>, <<>>, 0, 0)
AppendStep(name) == Edit("append_step", <<"job", name>>, <<>>, 0, 0)
JobRun == Edit("job_run", <<"job", "run">>, <<>>, 0, 0)
Fails(end) == Edit("fail", <<"job", end>>, <<>>, 0, 0)
Raises == Fails("raised")

(* Several parameters of a group, given as pairs <<key, word>>.            *)
Settings(group, pairs) ==
    [n \in DOMAIN pairs |-> SetParam(group, pairs[n][1], <<pairs[n][2]>>)]

(* The rows of a table, from its first.                                    *)
SetRows(at, rows) == [n \in DOMAIN rows |-> SetRow(at, rows[n], n)]

When(condition, edits) == IF condition THEN edits ELSE <<>>

Resized(node, n, m) == [node EXCEPT !.size = <<n, m>>]

EditedNode(node, e) ==
    CASE e.do = "set_param" -> Node(<<e.words>>)
      [] e.do = "set_row" ->
            Resized([node EXCEPT !.rows = RowSet(@, e.words, e.i)], e.i, Len(e.words))
      [] e.do = "set_cell" ->
            Resized([node EXCEPT !.rows = CellSet(@, e.words[1], e.i, e.j)], e.i, e.j)
      [] e.do = "set_option" -> [node EXCEPT !.option = e.words[1]]
      [] e.do = "add_words" -> [node EXCEPT !.rows = WordsAdded(@, e.words)]
      [] e.do = "set_words" -> [node EXCEPT !.rows = <<e.words>>]
      [] e.do \in {"turn_off", "turn_off_if_set"} -> [node EXCEPT !.on = FALSE]

EditedDoc(doc, e) ==
    IF e.do = "remove" THEN [at \in DOMAIN doc \ {e.at} |-> doc[at]]
    ELSE IF e.do = "turn_off_if_set" /\ ~ Has(doc, e.at) THEN doc
    ELSE Put(doc, e.at, EditedNode(NodeAt(doc, e.at), e))

(* One edit; after a failure nothing more happens.                         *)
Perform(object, e) ==
    IF object.end # "going" THEN object
    ELSE CASE e.do = "clear" -> [object EXCEPT !.steps = <<>>]
           [] e.do = "append_step" ->
                 [object EXCEPT !.steps = Append(@, [name |-> e.at[2], doc |-> object.doc])]
           [] e.do = "job_run" ->
                 IF Has(object.doc, <<"job", "xyz_file">>)
                 THEN [object EXCEPT !.written = object.steps]
                 ELSE [object EXCEPT !.end = "raised"]
           [] e.do = "fail" -> [object EXCEPT !.end = e.at[2]]
           [] OTHER -> [object EXCEPT !.doc = EditedDoc(@, e)]

Performed(object, edits) == FoldLeft(Perform, object, edits)

-----------------------------------------------------------------------------
(* What set_calc_processor_common sets from the command line: the          *)
(* scheduler's parameters, the phonopy supercell, then the structure.      *)
(* --queue and --jobname are not among them.                               *)
HandedOver ==
    <<"auto_level", "server", "partition", "nodes", "ntasks_per_node", "account", "time",
      "constraint", "ppn">>

Common(line, getXyz) ==
    [n \in DOMAIN HandedOver |-> SetParam("job", HandedOver[n], <<line.job[HandedOver[n]]>>)]
    \o <<SetParam("job", "phonopy_dim", <<line.dim>>)>>
    \o (IF line.form = "none" THEN <<Raises>> ELSE getXyz)

(* The structure, read by xyz.read_xyz_file; a cif file is written as an   *)
(* xyz file first.                                                         *)
Crystal == "crystal"

(* job.set_run("xyz_file") and the object's xyz.                           *)
TakesXyz(s) == <<SetParam("job", "xyz_file", <<s>>)>>

(* A structure: its atoms, its cell and its elements.  The files that one  *)
(* object reads here have the same elements and not the same number of     *)
(* atoms (StructureInput has the others).                                  *)
Atoms(s) == [n \in 1..AtomsOf(s) |-> "atom " \o ToString(n) \o " of " \o s]

AtomRows(s) == [n \in 1..AtomsOf(s) |-> <<Atoms(s)[n]>>]

Cell(s) == <<"cell of " \o s>>

Count(s) == ToString(AtomsOf(s))

Elements == "the elements"

NumberOfElements == "the number of elements"

(* A k-path's points: records [label, link].  args.kpath.count raises when *)
(* --kpath is not given.                                                   *)
PathCall(line, SetPath(_)) ==
    IF line.kpath = <<>> THEN <<Raises>> ELSE SetPath(line.kpath)

-----------------------------------------------------------------------------
(* Parameters of --custom and of --custom-file: records                    *)
(*     [group, key, option, rows, table]                                   *)
(* where table tells a ":=" item, whose rows are set one by one, from a    *)
(* "=" item with one row.  group is "" where the item names none.          *)

(* The readers of the custom files hand over the text after "=" as one     *)
(* value, commas included.                                                 *)
Uncut(words) == <<FoldLeft(LAMBDA text, word: text \o "," \o word, Head(words), Tail(words))>>

(* What the run itself sets: a user's value at such a place does not last. *)
SetBy(edits) ==
    {edits[n].at : n \in {m \in DOMAIN edits :
        edits[m].do \in {"set_param", "set_row", "set_cell", "set_words", "add_words",
                         "remove", "turn_off", "turn_off_if_set", "set_option"}}}
=============================================================================
