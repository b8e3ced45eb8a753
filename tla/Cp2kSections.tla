---------------------------- MODULE Cp2kSections ----------------------------
(***************************************************************************)
(* The CP2K calculator: a tree of sections with parameters, which          *)
(* set_param and new_section address by paths such as                      *)
(* "motion/band/energy(on)/each/band", get_xyz, set_kpoint_set and the     *)
(* class Neb write their own parts of, and run prints.                     *)
(*                                                                         *)
(* A section is known here by the names on the way to it.  A name may      *)
(* carry an index, "kind[H]", that keeps equal sections apart and is not   *)
(* printed; a step of a path may carry an argument, "energy(on)", that is  *)
(* printed and is not part of the name.                                    *)
(***************************************************************************)
EXTENDS Integers, Sequences, FiniteSets, Selections

CONSTANTS
    Structures, \* what structure files hold: sequences of elements
    Kpaths,     \* k-paths: sequences of [label, link] records
    ImageLists, \* arguments of set_images: sequences of file names
    Entries,    \* what user code sets: records [path, key]
    Shorts,     \* what user code sets by a path without a section
    Values,     \* the values user code sets
    Settings,   \* what the constructor of a class sets: class -> records [path, key]
    MaxCalls    \* bound: calls of one object

\* The name of a section: what is printed, and an index or none.
Name == STRING \X (Seq(STRING) \cup Seq(Nat))

Path == Seq([name: Name, arg: STRING])

ASSUME Cp2kAssumption ==
    /\ \A e \in Entries : e.path \in Path /\ e.path # <<>>
    /\ \A c \in DOMAIN Settings : \A e \in Settings[c] : e.path \in Path /\ e.path # <<>>
    /\ Structures \subseteq Seq(STRING \ {""})
    /\ ImageLists \subseteq Seq(STRING)
    /\ Kpaths \subseteq Seq([label: STRING, link: Int])
    /\ MaxCalls \in Nat

VARIABLES
    class,      \* the class of the object
    sections,   \* Cp2k::sections
    elements,   \* Xyz::elements_set
    images,     \* Neb::images
    crashed,    \* whether a null section was dereferenced
    input,      \* the sections as the last run() printed them
    calls,      \* calls so far
    atoms,      \* history: the structure read last
    kpaths,     \* history: the k-paths given so far
    listed,     \* history: the images given before the last run()
    wanted      \* history: what was set last, by section and key

history == <<atoms, kpaths, listed, wanted>>
vars == <<class, sections, elements, images, crashed, input, calls, history>>

-----------------------------------------------------------------------------
(* Names, paths and sections. *)
Plain(name) == <<name, <<>>>>
Indexed(name, i) == <<name, <<i>>>>

Steps(names) == [i \in DOMAIN names |-> [name |-> names[i], arg |-> ""]]

Names(path) == [i \in DOMAIN path |-> path[i].name]

OnTheWay(names) == {SubSeq(names, 1, i) : i \in 1..Len(names)}

Below(root, names) == Len(names) >= Len(root) /\ SubSeq(names, 1, Len(root)) = root

(* std::map: what new assigns, over what old holds.  (The same as @@ and   *)
(* :> of TLC, which the provers do not know.)                              *)
Over(new, old) ==
    [x \in DOMAIN new \cup DOMAIN old |-> IF x \in DOMAIN new THEN new[x] ELSE old[x]]

One(key, value) == [k \in {key} |-> value]

NoParams == <<>>
NewNode(arg) == [arg |-> arg, params |-> NoParams]

Subsys == <<Plain("force_eval"), Plain("subsys")>>
Cell == Append(Subsys, Plain("cell"))
Coord == Append(Subsys, Plain("coord"))
Kind(e) == Append(Subsys, Indexed("kind", e))
BandStructure == <<Plain("force_eval"), Plain("dft"), Plain("print"), Plain("band_structure")>>
KpointSet(i) == Append(BandStructure, Indexed("kpoint_set", i))
Band == <<Plain("motion"), Plain("band")>>
Replica(i) == Append(Band, Indexed("replica", i))

-----------------------------------------------------------------------------
\* A mutant of NewSection.
NewSectionLast(tree, path) ==
    [names \in DOMAIN tree \cup {Names(path)} |->
        IF names \in DOMAIN tree THEN tree[names] ELSE NewNode(path[Len(names)].arg)]

(* new_section: what is missing on the way is made, the argument of a step *)
(* is only looked at when its section is.                                  *)
NewSection(tree, path) ==
    [names \in DOMAIN tree \cup OnTheWay(Names(path)) |->
        IF names \in DOMAIN tree THEN tree[names] ELSE NewNode(path[Len(names)].arg)]

ExistsSection(tree, path) == OnTheWay(Names(path)) \subseteq DOMAIN tree

(* The sections on a path take the arguments of its steps. *)
WithArguments(tree, path) ==
    [names \in DOMAIN tree |->
        IF names \in OnTheWay(Names(path)) /\ path[Len(names)].arg # ""
        THEN [tree[names] EXCEPT !.arg = path[Len(names)].arg]
        ELSE tree[names]]

\* A mutant of WithParam.
WithParamAlone(tree, names, key, value) ==
    [tree EXCEPT ![names].params = One(key, value)]

(* Cp2kSection::set_param *)
WithParam(tree, names, key, value) ==
    [tree EXCEPT ![names].params = Over(One(key, value), @)]

(* The path of the section, "" when the path of a parameter has none. *)
SectionPath(path) == IF path = <<>> THEN Steps(<<Plain("")>>) ELSE path

(* What set_param makes before it goes down the path. *)
Prepared(tree, path) ==
    IF ExistsSection(tree, SectionPath(path)) THEN tree
    ELSE NewSection(tree, SectionPath(path))

(* set_param for a path that has a section. *)
SetParamAt(tree, path, key, value) ==
    WithParam(WithArguments(Prepared(tree, path), path), Names(path), key, value)

(* A call of set_param dereferences every section on the path, or, for a   *)
(* path without one, the section of the parameter's name.                  *)
Visited(path, key) == IF path = <<>> THEN {<<Plain(key)>>} ELSE OnTheWay(Names(path))

(* What the class itself writes by set_param: params of sections that are  *)
(* made where they are missing, below a section that is there.             *)
Merge(tree, new) ==
    Over([names \in DOMAIN new |->
             IF names \in DOMAIN tree
             THEN [tree[names] EXCEPT !.params = Over(new[names], @)]
             ELSE [arg |-> "", params |-> new[names]]],
         tree)

-----------------------------------------------------------------------------
(* set_subsys: a new subsys takes the place of the old one, with the cell, *)
(* the atoms of the file and one kind of each element ever read.           *)
KindNode(e) == [arg |-> e, params |-> [k \in {"basis_set", "potential"} |-> <<"file">>]]

Outside(tree, root) == {names \in DOMAIN tree : ~ Below(root, names)}

\* A mutant of WithSubsys.
WithSubsysLast(tree, file, species) ==
    [names \in Outside(tree, Subsys) \cup {Subsys, Cell, Coord, Kind(file[Len(file)])} |->
        IF names \in Outside(tree, Subsys) THEN tree[names]
        ELSE IF names = Coord THEN [arg |-> "", params |-> One("atoms", file)]
        ELSE IF names \in {Subsys, Cell} THEN NewNode("")
        ELSE KindNode(names[3][2][1])]

WithSubsys(tree, file, species) ==
    [names \in Outside(tree, Subsys) \cup {Subsys, Cell, Coord} \cup {Kind(e) : e \in species} |->
        IF names \in Outside(tree, Subsys) THEN tree[names]
        ELSE IF names = Coord THEN [arg |-> "", params |-> One("atoms", file)]
        ELSE IF names \in {Subsys, Cell} THEN NewNode("")
        ELSE KindNode(names[3][2][1])]

(* set_kpoint_set: the points that are joined to the next one, the number  *)
(* each of them gets, and its section.                                     *)
Joined(k) == {i \in 1..(Len(k) - 1) : k[i].link # 0}

\* A mutant of Number.
NumberOfPoint(k, i) == i - 1

Number(k, i) == Cardinality({j \in Joined(k) : j < i})

Segment(k, i) ==
    [special_point_0 |-> <<k[i].label>>, special_point_1 |-> <<k[i + 1].label>>,
     npoints |-> <<k[i].link - 1>>]

WithKpath(tree, k) ==
    Merge(NewSection(tree, Steps(BandStructure)),
          [names \in {KpointSet(Number(k, i)) : i \in Joined(k)} |->
              Segment(k, CHOOSE i \in Joined(k) : KpointSet(Number(k, i)) = names)])

(* Neb::run: one replica of each image. *)
WithReplicas(tree, files) ==
    Merge(NewSection(tree, Steps(Band)),
          [names \in {Replica(i - 1) : i \in DOMAIN files} |->
              [coord_file_name |-> <<files[names[3][2][1] + 1]>>]])

-----------------------------------------------------------------------------
(* to_string: the sections are printed in the order of std::map, by their  *)
(* names with the index.  The index is compared digit by digit, and its    *)
(* closing bracket comes after every digit: the first hundred numbers are  *)
(* printed as 0, 10..19, 1, 20..29, 2, ..., 90..99, 9.                     *)
Place(i) == IF i < 10 THEN 11 * i + 10 ELSE 11 * (i \div 10) + (i % 10)

(* The images as the input lists them. *)
PrintedImages(tree) ==
    LET numbers == {i \in 0..99 : Replica(i) \in DOMAIN tree}
        printed(n) == CHOOSE i \in numbers :
            Cardinality({j \in numbers : Place(j) < Place(i)}) = n - 1
    IN  [n \in 1..Cardinality(numbers) |-> tree[Replica(printed(n))].params.coord_file_name[1]]

-----------------------------------------------------------------------------
(* The sections a constructor makes. *)
Constructed(set) ==
    LET named(names) == {e \in set : Names(e.path) = names /\ e.key # ""}
        given(names) == {e.path[Len(names)].arg : e \in {e \in set : names \in OnTheWay(Names(e.path))}} \ {""}
    IN  [names \in UNION {OnTheWay(Names(e.path)) : e \in set} |->
            [arg |-> IF given(names) = {} THEN "" ELSE CHOOSE a \in given(names) : TRUE,
             params |-> [k \in {e.key : e \in named(names)} |-> <<"class">>]]]

Init ==
    /\ class \in DOMAIN Settings
    /\ sections = Constructed(Settings[class])
    /\ elements = {}
    /\ images = <<>>
    /\ crashed = FALSE
    /\ input = <<>>
    /\ calls = 0
    /\ atoms = <<>>
    /\ kpaths = <<>>
    /\ listed = <<>>
    /\ wanted = [w \in {<<Names(e.path), e.key>> : e \in {e \in Settings[class] : e.key # ""}} |->
                    <<"class">>]

Call ==
    /\ ~ crashed
    /\ calls < MaxCalls
    /\ calls' = calls + 1
    /\ UNCHANGED class

(* What is wanted of the sections outside of S. *)
WantedOutside(S) == [w \in {w \in DOMAIN wanted : w[1] \notin S} |-> wanted[w]]

(* new_section(path) *)
MakeSection(path) ==
    /\ Call
    /\ sections' = NewSection(sections, path)
    /\ UNCHANGED <<elements, images, crashed, input, history>>

(* set_param(path/key, value) *)
SetParam(path, key, value) ==
    /\ Call
    /\ crashed' = ~ (Visited(path, key) \subseteq DOMAIN Prepared(sections, path))
    /\ IF crashed' \/ path = <<>>
       THEN sections' = Prepared(sections, path) /\ wanted' = wanted
       ELSE /\ sections' = SetParamAt(sections, path, key, value)
            /\ wanted' = Over(One(<<Names(path), key>>, value), wanted)
    /\ UNCHANGED <<elements, images, input, atoms, kpaths, listed>>

(* get_xyz(file) *)
GetXyz(file) ==
    /\ Call
    /\ elements' = elements \cup {file[i] : i \in DOMAIN file}
    /\ sections' = WithSubsys(sections, file, elements')
    /\ atoms' = file
    /\ wanted' = WantedOutside({w[1] : w \in {w \in DOMAIN wanted : Below(Subsys, w[1])}})
    /\ UNCHANGED <<images, crashed, input, kpaths, listed>>

(* set_kpoint_set(kpath): the bound of the loop is labels.size() - 1, of   *)
(* an unsigned type; an empty path reads beyond its end.                   *)
SetKpointSet(k) ==
    /\ Call
    /\ crashed' = (k = <<>>)
    /\ sections' = IF crashed' THEN sections ELSE WithKpath(sections, k)
    /\ kpaths' = Append(kpaths, k)
    /\ wanted' = WantedOutside({KpointSet(Number(k, i)) : i \in Joined(k)})
    /\ UNCHANGED <<elements, images, input, atoms, listed>>

(* Neb::set_images(images) *)
SetImages(files) ==
    /\ class = "Neb"
    /\ Call
    /\ images' = images \o files
    /\ UNCHANGED <<sections, elements, crashed, input, history>>

(* run: the class Neb names its replicas before it prints. *)
Run ==
    /\ Call
    /\ sections' = IF class = "Neb" THEN WithReplicas(sections, images) ELSE sections
    /\ wanted' = WantedOutside({Replica(i - 1) : i \in DOMAIN images})
    /\ input' = sections'
    /\ listed' = images
    /\ UNCHANGED <<elements, images, crashed, atoms, kpaths>>

Next ==
    \/ \E e \in Entries : MakeSection(e.path)
    \/ \E e \in Entries, v \in Values : SetParam(e.path, e.key, v)
    \/ \E k \in Shorts, v \in Values : SetParam(<<>>, k, v)
    \/ \E file \in Structures : GetXyz(file)
    \/ \E k \in Kpaths : SetKpointSet(k)
    \/ \E files \in ImageLists : SetImages(files)
    \/ Run

Spec == Init /\ [][Next]_vars

-----------------------------------------------------------------------------
TypeOK ==
    /\ class \in DOMAIN Settings
    /\ \A names \in DOMAIN sections :
        /\ OnTheWay(names) \subseteq DOMAIN sections
        /\ sections[names] = [arg |-> sections[names].arg, params |-> sections[names].params]
    /\ crashed \in BOOLEAN
    /\ calls \in 0..MaxCalls

(* set_param goes down the path by operator[] of the maps and dereferences *)
(* what it finds: it finds a section, unless the path has none; and        *)
(* set_kpoint_set stays inside of the path, unless that is empty.          *)
CrashNeedsCause ==
    crashed => \/ <<Plain("")>> \in DOMAIN sections
               \/ \E n \in DOMAIN kpaths : kpaths[n] = <<>>

(* Whatever sections were made or renewed since: a parameter is where it   *)
(* was set, with the value it was given last.                              *)
SetIsKept ==
    \A w \in DOMAIN wanted :
        /\ w[1] \in DOMAIN sections
        /\ w[2] \in DOMAIN sections[w[1]].params
        /\ sections[w[1]].params[w[2]] = wanted[w]

(* The sections that print as "&kind E". *)
KindsOf(e) ==
    {names \in DOMAIN sections : /\ Len(names) = 3 /\ Below(Subsys, names)
                                 /\ names[3][1] = "kind" /\ sections[names].arg = e}

(* "Specify the images to do the neb calculation, e.g. --images            *)
(* initial.xyz intermidiate.xyz ... final.xyz": the input lists every      *)
(* image, and up to ten of them in the order they were given.              *)
ImagesInOrder ==
    (class = "Neb" /\ input # <<>> /\ Len(listed) <= 100) =>
        LET printed == PrintedImages(input) IN
        /\ {printed[n] : n \in DOMAIN printed} = {listed[n] : n \in DOMAIN listed}
        /\ Len(listed) <= 10 => printed = listed

(* The structure of the input is the one read last, every element of it    *)
(* has exactly one kind, with a basis set and a potential, and the images  *)
(* of Neb are those given, in order.                                       *)
StructureIsComplete ==
    /\ ImagesInOrder
    /\ atoms # <<>> =>
           /\ sections[Coord].params.atoms = atoms
           /\ \A i \in DOMAIN atoms : \E names \in KindsOf(atoms[i]) :
               /\ KindsOf(atoms[i]) = {names}
               /\ {"basis_set", "potential"} \subseteq DOMAIN sections[names].params

(* The segments of a k-path, in order. *)
Segments(k) ==
    LET points == Only([i \in 1..(Len(k) - 1) |-> i], Joined(k))
    IN  [n \in DOMAIN points |-> Segment(k, points[n])]

(* The paths that constructors and user code set or make.                 *)
GivenPaths ==
    {e.path : e \in Entries} \cup UNION {{e.path : e \in Settings[c]} : c \in DOMAIN Settings}

(* A path that goes to no k-point set; one that goes to no replica and not *)
(* to the atoms, and gives no kind a name.                                 *)
LeavesKpoints(path) == \A i \in DOMAIN path : path[i].name[1] # "kpoint_set"

LeavesStructure(path) ==
    \A i \in DOMAIN path :
        /\ path[i].name[1] \notin {"coord", "replica"}
        /\ path[i].name[1] = "kind" => path[i].arg = ""

KpointsAreLeft == \A path \in GivenPaths : LeavesKpoints(path)

StructureIsLeft == \A path \in GivenPaths : LeavesStructure(path)

(* The first k-point sets are the segments of the k-path given last; one   *)
(* more than it has segments is left of a k-path that had more.            *)
KpointSetsFollowPath ==
    (kpaths # <<>> /\ ~ crashed) =>
        LET last == Segments(kpaths[Len(kpaths)]) IN
        /\ \A n \in DOMAIN last : /\ KpointSet(n - 1) \in DOMAIN sections
                                 /\ sections[KpointSet(n - 1)].params = last[n]
        /\ \A n \in 0..9 : KpointSet(n) \in DOMAIN sections =>
            \E m \in DOMAIN kpaths : n < Len(Segments(kpaths[m]))
=============================================================================
