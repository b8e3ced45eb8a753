---------------------------- MODULE DensityPost ----------------------------
(***************************************************************************)
(* The Dos classes of the post-processing: what a program left in the      *)
(* directory about the density of states, projected on atoms and orbitals, *)
(* is added up to one curve per element, per shell of an element and per   *)
(* magnetic number of a shell (VASP and Elk: per atom).                    *)
(*                                                                         *)
(* A calculation [pass, atoms, spins, byM]: atoms is the sequence of the   *)
(* elements, byM whether CP2K was told to print by magnetic number.  A     *)
(* channel is an orbital of an atom with a spin.  A column of a file is    *)
(* the set of the channels it holds the sum of, a curve the bag of those   *)
(* that were added to it.                                                  *)
(***************************************************************************)
EXTENDS Integers, Sequences, SequencesExt

Densities == {"dos_abinit", "dos_qe", "dos_siesta", "dos_vasp", "dos_cp2k", "dos_elk"}

ForEach(n, Parts(_)) == FlattenSeq([i \in 1..n |-> Parts(i)])

-----------------------------------------------------------------------------
(* The programs (external).  A shell is [n, l]; in the files of Abinit,    *)
(* which has no n, each l up to 4 is one.                                  *)
Shell(n, l) == [n |-> n, l |-> l]

Shells(element) ==
    CASE element = "Fe" -> <<Shell(3, 2), Shell(4, 0)>>
      [] element = "O" -> <<Shell(2, 0), Shell(2, 1)>>

Magnetic(shell) == [i \in 1..2 * shell.l + 1 |-> i - 1 - shell.l]

Channel(calc, atom, shell, m, spin) ==
    [of |-> calc.pass, atom |-> atom, shell |-> shell, m |-> m, spin |-> spin]

Whole(calc, atom, shell, spin) ==
    {Channel(calc, atom, shell, m, spin) : m \in Range(Magnetic(shell))}

ChannelsOf(program, calc, atom, spin) ==
    UNION {Whole(calc, atom, shell, spin) : shell \in
              IF program = "dos_abinit" THEN {Shell(0, l) : l \in 0..4}
              ELSE Range(Shells(calc.atoms[atom]))}

(* The files: Abinit's of an atom, Quantum ESPRESSO's of a shell of an     *)
(* atom, CP2K's of a kind and a spin, VASP's, SIESTA's and Elk's of all.   *)
Files(program, calc) ==
    CASE program = "dos_abinit" -> {<<a>> : a \in DOMAIN calc.atoms}
      [] program = "dos_qe" -> {<<a, calc.atoms[a], w>> : a \in DOMAIN calc.atoms, w \in 1..2}
      [] program = "dos_cp2k" ->
            {<<e, IF calc.spins = 1 THEN "unpolarized" ELSE s>>
                : e \in Range(calc.atoms), s \in {"alpha", "beta"}}
      [] OTHER -> {<<"all">>}

(* Abinit, for one spin: the energy, l, integrated l, and l and m.         *)
AbinitColumns(calc, atom, spin) ==
    LET l == [k \in 1..5 |-> Whole(calc, atom, Shell(0, k - 1), spin)]
    IN <<{}>> \o l \o [k \in 1..5 |-> {}]
       \o ForEach(5, LAMBDA k : [i \in 1..2 * k - 1 |->
              {Channel(calc, atom, Shell(0, k - 1), i - k, spin)}])

(* Quantum ESPRESSO: the energy, all m, and each m, by spin.               *)
QeColumns(calc, atom, shell) ==
    <<{}>> \o [s \in 1..calc.spins |-> Whole(calc, atom, shell, s)]
    \o ForEach(Len(Magnetic(shell)), LAMBDA i : [s \in 1..calc.spins |->
           {Channel(calc, atom, shell, Magnetic(shell)[i], s)}])

-----------------------------------------------------------------------------
(* The dictionaries of curves.                                             *)
Key(level, of, name, spin) == [level |-> level, of |-> of, name |-> name, spin |-> spin]

Part(level, of, name, spin, channels) ==
    [key |-> Key(level, of, name, spin), channels |-> channels]

NoCurves == [k \in {} |-> <<>>]

KeysOf(parts) == {parts[p].key : p \in DOMAIN parts}

PartsFor(key, parts) == {p \in DOMAIN parts : parts[p].key = key}

(* A curve is the function from its channels to how often they were added. *)
CurveOf(of, parts) ==
    [c \in UNION {parts[p].channels : p \in of} |->
        Cardinality({p \in of : c \in parts[p].channels})]

AddUp(parts) == [key \in KeysOf(parts) |-> CurveOf(PartsFor(key, parts), parts)]

(* The last part of a key instead of all of them.                          *)
Assign(parts) == [key \in KeysOf(parts) |-> CurveOf({Max(PartsFor(key, parts))}, parts)]

\* The index of a column beyond the last one raises an exception.
Beyond == {[of |-> 0, atom |-> 0, shell |-> Shell(0, 0), m |-> 0, spin |-> 0]}

Pick(columns, index) == IF index < Len(columns) THEN columns[index + 1] ELSE Beyond

Raises(parts) == \E p \in DOMAIN parts : parts[p].channels = Beyond

\* The files in the order they are listed in, which is any.
InOrder(directory) == FoldSet(LAMBDA f, files : Append(files, f), <<>>, DOMAIN directory)

-----------------------------------------------------------------------------
(* Abinit: the element by the number in the file's name.  The lines of a   *)
(* file are cut in as many parts as DOS_TOTAL has spins, so that a file    *)
(* with another number of spins does not fit the curves.                   *)
\* A mutant of AbinitPlace.
AbinitPlaceShort(l, m_i) ==
    FoldLeft(LAMBDA col, l_i : col + 2 * l_i, 11, [k \in 1..l |-> k - 1]) + m_i

AbinitPlace(l, m_i) ==
    FoldLeft(LAMBDA col, l_i : col + 2 * l_i + 1, 11, [k \in 1..l |-> k - 1]) + m_i

AbinitData(calc, atom, spin, spins) ==
    IF calc.spins = spins THEN AbinitColumns(calc, atom, spin) ELSE <<>>

AbinitParts(directory, told, spins) ==
    LET files == InOrder(directory) IN
    ForEach(Len(files), LAMBDA f :
        LET atom == files[f][1]
            elem == IF atom \in DOMAIN told THEN told[atom] ELSE "none"
        IN ForEach(spins, LAMBDA s :
               LET data == IF elem = "none" THEN <<>>
                           ELSE AbinitData(directory[<<atom>>], atom, s, spins)
               IN ForEach(5, LAMBDA k :
                      LET l == k - 1 IN
                      <<Part("elem", elem, <<>>, s, Pick(data, l + 1)),
                        Part("l", elem, <<l>>, s, Pick(data, l + 1))>>
                      \o [i \in 1..2 * l + 1 |->
                             Part("l_m", elem, <<l, i - 1 - l>>, s,
                                  Pick(data, AbinitPlace(l, i - 1)))])))

(* Quantum ESPRESSO: the element, the number and the letter of the shell   *)
(* from the file's name, the number of spins from pdos_tot.                *)
QePlace(m_i, spin, spins) == IF spins = 2 THEN 3 + m_i * 2 + (spin - 1) ELSE 2 + m_i

QeParts(directory, spins) ==
    LET files == InOrder(directory) IN
    ForEach(Len(files), LAMBDA f :
        LET name == files[f]
            shell == Shells(name[2])[name[3]]
            data == QeColumns(directory[name], name[1], shell)
        IN ForEach(spins, LAMBDA s : ForEach(2 * shell.l + 1, LAMBDA i :
               LET column == Pick(data, QePlace(i - 1, s, spins)) IN
               <<Part("elem", name[2], <<>>, s, column),
                 Part("l", name[2], <<name[3], shell.l>>, s, column),
                 Part("l_m", name[2], <<name[3], shell.l, i - 1 - shell.l>>, s, column)>>)))

(* SIESTA: an element of the XML per orbital; each n, l and m of an atom   *)
(* has two (external).  The values of the spins follow each other.         *)
SiestaOrbitals(calc) ==
    ForEach(Len(calc.atoms), LAMBDA a : ForEach(Len(Shells(calc.atoms[a])), LAMBDA h :
        LET shell == Shells(calc.atoms[a])[h] IN
        ForEach(2 * shell.l + 1, LAMBDA i : [z \in 1..2 |->
            [species |-> calc.atoms[a], shell |-> shell, m |-> Magnetic(shell)[i],
             data |-> [s \in 1..calc.spins |->
                          IF z = 1 THEN {Channel(calc, a, shell, Magnetic(shell)[i], s)} ELSE {}]]])))

SiestaParts(calc) ==
    LET orbitals == SiestaOrbitals(calc) IN
    ForEach(Len(orbitals), LAMBDA o :
        LET elem == orbitals[o].species
            n == orbitals[o].shell.n
            l == orbitals[o].shell.l
            data == orbitals[o].data
        IN ForEach(calc.spins, LAMBDA spin :
               <<Part("elem", elem, <<>>, spin, data[spin]),
                 Part("l", elem, <<n, l>>, spin, data[spin]),
                 Part("l_m", elem, <<n, l, orbitals[o].m>>, spin, data[spin])>>))

(* VASP: a curve per ion, field and spin, the fields being l and m (the    *)
(* tic of LORBIT = 11).  Elk: a curve per atom, the file of all its        *)
(* channels, the atoms being those of elk.in in its order.                 *)
VaspParts(calc) ==
    ForEach(Len(calc.atoms), LAMBDA ion : ForEach(calc.spins, LAMBDA s :
        ForEach(2, LAMBDA h : LET shell == Shells(calc.atoms[ion])[h] IN
            [i \in DOMAIN Magnetic(shell) |->
                Part("l_m", ion, <<shell.l, Magnetic(shell)[i]>>, s,
                     {Channel(calc, ion, shell, Magnetic(shell)[i], s)})])))

ElkParts(calc) ==
    ForEach(Len(calc.atoms), LAMBDA a :
        [s \in 1..calc.spins |-> Part("elem", a, <<>>, s, ChannelsOf("dos_elk", calc, a, s))])

-----------------------------------------------------------------------------
(* CP2K.  The file of a kind and a spin has a column per l or per l and m, *)
(* the sum over the atoms of the kind (external).  It is smeared into      *)
(* post.dir; the curves are made of all files that are there, also those   *)
(* of an earlier run(), and a second column of one name replaces the       *)
(* first.                                                                  *)
Cp2kKinds(calc, elem, l, ms, spin) ==
    UNION {{c \in ChannelsOf("dos_cp2k", calc, a, spin) : c.shell.l = l /\ c.m \in ms}
              : a \in {b \in DOMAIN calc.atoms : calc.atoms[b] = elem}}

Cp2kColumns(calc, name) ==
    LET spin == IF name[2] = "beta" THEN 2 ELSE 1
    IN ForEach(2, LAMBDA h :
          LET shell == Shells(name[1])[h] IN
          IF calc.byM
          THEN [i \in DOMAIN Magnetic(shell) |->
                   [name |-> <<shell.l, Magnetic(shell)[i]>>,
                    channels |-> Cp2kKinds(calc, name[1], shell.l, {Magnetic(shell)[i]}, spin)]]
          ELSE <<[name |-> <<shell.l>>,
                  channels |-> Cp2kKinds(calc, name[1], shell.l, Range(Magnetic(shell)), spin)]>>)

Smeared(directory, saved) ==
    [name \in DOMAIN directory \cup DOMAIN saved |->
        IF name \in DOMAIN directory THEN Cp2kColumns(directory[name], name) ELSE saved[name]]

Cp2kParts(level, saved) ==
    LET files == InOrder(saved) IN
    ForEach(Len(files), LAMBDA f :
        LET name == files[f]
        IN [j \in DOMAIN saved[name] |->
               Part(level, name[1], IF level = "elem" THEN <<>> ELSE saved[name][j].name,
                    name[2], saved[name][j].channels)])

Cp2kCurves(saved) ==
    LET elem_proj == AddUp(Cp2kParts("elem", saved))
        elem_component_proj == Assign(Cp2kParts("component", saved))
    IN [key \in DOMAIN elem_proj \cup DOMAIN elem_component_proj |->
           IF key \in DOMAIN elem_proj THEN elem_proj[key] ELSE elem_component_proj[key]]

-----------------------------------------------------------------------------
(* run(): what it adds up, told a structure and the spins of the last      *)
(* calculation.                                                            *)
PartsOf(program, directory, told, spins) ==
    CASE program = "dos_abinit" -> AbinitParts(directory, told, spins)
      [] program = "dos_qe" -> QeParts(directory, spins)
      [] program = "dos_siesta" -> SiestaParts(directory[<<"all">>])
      [] program = "dos_vasp" -> VaspParts(directory[<<"all">>])
      [] program = "dos_elk" -> ElkParts(directory[<<"all">>])

-----------------------------------------------------------------------------
(* The gnuplot script: every curve once, those of the second spin, known   *)
(* by the name of the curve, downwards.  Elk's has one picture for both.   *)
AbinitSign(key, spins) == IF spins = 2 /\ key.spin # 1 THEN -1 ELSE 1

QeSign(key, spins) == IF spins = 2 /\ key.spin # 1 THEN -1 ELSE 1

SiestaSign(key) == IF key.spin = 2 THEN -1 ELSE 1

VaspSign(key) == IF key.spin = 2 THEN -1 ELSE 1

Cp2kSign(key) == IF key.spin = "beta" THEN -1 ELSE 1

SignOf(program, key, spins) ==
    CASE program = "dos_abinit" -> AbinitSign(key, spins)
      [] program = "dos_qe" -> QeSign(key, spins)
      [] program = "dos_siesta" -> SiestaSign(key)
      [] program = "dos_vasp" -> VaspSign(key)
      [] program = "dos_cp2k" -> Cp2kSign(key)
      [] program = "dos_elk" -> 1

DrawnCurves(program, curves, spins) ==
    [key \in DOMAIN curves |-> [adds |-> curves[key], sign |-> SignOf(program, key, spins)]]
=============================================================================
