---------------------------- MODULE NWChemInput ----------------------------
(***************************************************************************)
(* NWChem's input: tasks of directives.  The keywords of a directive of    *)
(* task i are at <<i, path>>, the fields of a geometry at                  *)
(* <<i, path \o " fields">>; a path without an index names no task.        *)
(***************************************************************************)
EXTENDS Keywords

Calcs == {"static", "opt", "md", "freq", "neb"}
PathCalcs == {}

Tasks == {"0", "1"}  \* bound: the tasks users speak of
Task == <<"0", "task">>
Geometry(image) == <<"0", "geometry" \o image>>
Fields(image) == <<"0", "geometry" \o image \o " fields">>

-----------------------------------------------------------------------------
(* The constructors: Static, Opt and MD add to the words NWChem's own      *)
(* constructor set, Freq and Neb replace them.                             *)
NWChem ==
    <<SetWords(Task, <<"scf", "energy">>), AddWords(<<"0", "charge">>, <<"0">>),
      AddWords(<<"0", "title">>, <<"NWChem calculation">>)>>

OfClass(calc) ==
    CASE calc = "static" -> <<AddWords(Task, <<"dft">>), AddWords(Task, <<"energy">>)>>
      [] calc = "opt" -> <<AddWords(Task, <<"dft">>), AddWords(Task, <<"optimize">>)>>
      [] calc = "md" -> <<AddWords(Task, <<"dft">>), AddWords(Task, <<"qmd">>)>>
      [] calc = "freq" -> <<SetWords(Task, <<"dft", "freq">>)>>
      [] calc = "neb" -> <<SetWords(Task, <<"neb", "ignore">>)>>

New(calc) == NWChem \o OfClass(calc)

Basis == <<"0", "basis/" \o Elements>>

(* get_xyz: the fields of a longer file stay below. *)
GetXyz(s) ==
    TakesXyz(s)
    \o <<SetWords(Geometry(""), <<"units", "angstroms">>)>>
    \o SetRows(Fields(""), AtomRows(s))
    \o <<SetWords(Basis, <<"library", "6-31g">>)>>

(* set_neb_images. *)
SetImages(images, mode) ==
    <<SetParam("self", "neb_images", images), SetParam("self", "neb_images_mode", <<mode>>)>>

SetPath(path) == <<>>

(* An item of --custom or a line of --custom-file: "+=" adds words, "="    *)
(* replaces them.  A path without an index is read past its end.           *)
Custom(item, file) ==
    IF item.group = "" THEN <<Fails("undefined")>>
    ELSE IF item.table THEN <<AddWords(<<item.group, item.key>>, item.rows[1])>>
    ELSE <<SetWords(<<item.group, item.key>>, item.rows[1])>>

-----------------------------------------------------------------------------
(* The geometry of an image, with its part in the path. *)
ImageGeometry(n, images, part) ==
    LET image == "@" \o ToString(n - 1)
    IN  <<SetWords(Geometry(image), part \o <<"nocenter", "noautosym", "noautoz",
                                              "units", "angstroms">>)>>
        \o SetRows(Fields(image), AtomRows(images[n]))

(* Mode 0 states two geometries, mode 1 three, mode 2 the path's file.     *)
ImageGeometries(mode, images) ==
    CASE mode = "0" -> ImageGeometry(1, images, <<>>) \o ImageGeometry(2, images, <<"endgeom">>)
      [] mode = "1" -> ImageGeometry(1, images, <<>>) \o ImageGeometry(2, images, <<"midgeom">>)
                       \o ImageGeometry(3, images, <<"endgeom">>)
      [] mode = "2" -> <<SetWords(<<"0", "neb/xyz_path">>, <<"neb-path.xyz">>)>>

TooFew(mode, images) == Len(images) < (IF mode = "0" THEN 2 ELSE IF mode = "1" THEN 3 ELSE 1)

NebRun(doc) ==
    IF ~ Has(doc, <<"self", "neb_images">>) THEN <<TurnOff(Geometry("")), Raises>>
    ELSE LET images == RowsAt(doc, <<"self", "neb_images">>)[1]
             mode == FirstWord(doc, <<"self", "neb_images_mode">>)
         IN  <<TurnOff(Geometry("")), TurnOff(Fields(""))>>
             \o (IF TooFew(mode, images) THEN <<Raises>>
                 ELSE <<SetParam("job", "xyz_file", <<images[1]>>)>>
                      \o ImageGeometries(mode, images)
                      \o <<SetWords(Basis, <<"library", "6-31g">>),
                           AppendStep("neb-path.xyz")>>)

(* to_string ends every task with its task directive, which a task a       *)
(* user's path made does not have.                                         *)
NoTask(doc) == \E at \in DOMAIN doc : at[1] \in Tasks /\ ~ Has(doc, <<at[1], "task">>)

(* Runs; the steps of an earlier run stay. *)
Run(calc, doc) ==
    (IF calc = "neb" THEN NebRun(doc) ELSE <<>>)
    \o <<IF NoTask(doc) THEN Fails("undefined") ELSE AppendStep("nwchem.nw"), JobRun>>

Text(step) ==
    LET doc == step.doc IN
    [at \in {p \in DOMAIN doc : p[1] \in Tasks /\ IsOn(doc, p)} |-> doc[at].rows]

-----------------------------------------------------------------------------
(* --custom is parsed into two dicts first: the "+=" items come before the *)
(* "=" items.                                                              *)
Sorted(items) ==
    SelectSeq(items, LAMBDA item: item.table) \o SelectSeq(items, LAMBDA item: ~ item.table)

Commands(line) ==
    <<New(line.calc)>>
    \o When(line.calc = "neb",
            <<IF line.images = <<>> THEN <<Raises>> ELSE SetImages(line.images, line.mode)>>)
    \o <<Common(line, GetXyz(Crystal))>>
    \o [n \in DOMAIN line.file |-> Custom(line.file[n], TRUE)]
    \o LET items == Sorted(line.custom) IN [n \in DOMAIN items |-> Custom(items[n], FALSE)]
=============================================================================
