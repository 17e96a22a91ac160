------------------------------ MODULE SavedFiles ------------------------------
(***************************************************************************)
(* The files that the configuration pages write and the program reads:     *)
(* apps.json (confighttp.cpp, process.cpp) is read again after every save, *)
(* sunshine.conf (confighttp.cpp, config.cpp) at the next start.  Pages    *)
(* say which application they mean by its index in the file as they have   *)
(* seen it.                                                                *)
(***************************************************************************)
EXTENDS Naturals, Sequences, FiniteSets

CONSTANTS
    Tabs,       \* pages that are open
    Apps, Bad,  \* applications; those whose commands lack a closing bracket
    Options,    \* of the configuration that are integers within a range
    Values,     \* "good", "cut", with a '#', "open", a list without an end, "wild", out of range
    Lines,      \* command lines: sequences of pairs of an option and a value
    MaxApps, Nil,
    Saves       \* bounds what is saved: pairs of numbers of edits of applications and of options

VARIABLES
    apps,    \* the file of the applications
    list,    \* proc.get_apps()
    tab,     \* what each page shows
    conf,    \* the lines of the configuration file
    line,    \* the command line
    set,     \* what is in effect
    page,    \* history: what was saved last, and since the last start or not
    left     \* saves

vars == <<apps, list, tab, conf, line, set, page, left>>

Default == "default"
Readable(f) == \A n \in DOMAIN f : f[n] \notin Bad

\* parse() and refresh(): nothing changes if a command cannot be read.
Refreshed(f) == IF Readable(f) THEN <<"Desktop">> \o f ELSE list
Started(f) == IF Readable(f) THEN <<"Desktop">> \o f ELSE <<>>

-----------------------------------------------------------------------------
(* config.cpp                                                              *)

\* parse_option(): a value ends at a '#', and what is before it is no number here; a list
\* without an end takes the rest of the file.
TextOf(v) == IF v = "cut" THEN "empty" ELSE v
LinesRead(f) == LET ends == {n \in DOMAIN f : f[n][2] = "open"}
                IN  {n \in DOMAIN f : \A m \in ends : n < m}

\* parse_config(): emplace() keeps the first; parse(): the last word of the command line
\* goes before the file.
First(f, o) == {n \in LinesRead(f) : f[n][1] = o /\ \A m \in LinesRead(f) : f[m][1] = o => m >= n}
Last(c, o) == {n \in DOMAIN c : c[n][1] = o /\ \A m \in DOMAIN c : c[m][1] = o => m <= n}
Word(f, c, o) ==
    IF Last(c, o) # {} THEN c[CHOOSE n \in Last(c, o) : TRUE][2]
    ELSE IF First(f, o) # {} THEN TextOf(f[CHOOSE n \in First(f, o) : TRUE][2])
    ELSE Default

\* int_between_f(): what is out of range is ignored, and so is what an empty value gives.
UsableAlways(v) == TRUE
Usable(v) == v \notin {"wild", "empty"}
Applied(f, c) == [o \in Options |-> IF Usable(Word(f, c, o)) THEN Word(f, c, o) ELSE Default]

Init ==
    /\ apps = <<>> /\ list = Started(<<>>)
    /\ tab = [t \in Tabs |-> Nil]
    /\ conf = <<>> /\ line \in Lines /\ set = Applied(<<>>, line)
    /\ page = Nil /\ left \in Saves

-----------------------------------------------------------------------------
\* getApps()
Show(t) ==
    /\ tab' = [tab EXCEPT ![t] = apps]
    /\ UNCHANGED <<apps, list, conf, line, set, page, left>>

Write(f) ==
    /\ left[1] > 0 /\ left' = <<left[1] - 1, left[2]>>
    /\ apps' = f /\ list' = Refreshed(f)
    /\ UNCHANGED <<tab, conf, line, set, page>>

\* saveApp(): index -1 is a new application; one that is not there changes nothing.
Added(a) == Append(apps, a)
Replaced(i, a) == [n \in DOMAIN apps |-> IF n - 1 = i THEN a ELSE apps[n]]
\* deleteApp() copies the others.
Deleted(i) == IF i < Len(apps) THEN SubSeq(apps, 1, i) \o SubSeq(apps, i + 2, Len(apps)) ELSE apps

AddApp(t, a) == tab[t] # Nil /\ Len(apps) < MaxApps /\ Write(Added(a))
ReplaceApp(t, i, a) == tab[t] # Nil /\ i < Len(tab[t]) /\ Write(Replaced(i, a))
DeleteApp(t, i) == tab[t] # Nil /\ i < Len(tab[t]) /\ Write(Deleted(i))

\* saveConfig(): one line for every value that is not empty, in any order; nothing is read.
SaveConfig(f) ==
    /\ left[2] > 0 /\ left' = <<left[1], left[2] - 1>>
    /\ conf' = f /\ page' = [lines |-> f, applied |-> FALSE]
    /\ UNCHANGED <<apps, list, tab, line, set>>

Pages == {<<>>} \cup {<< <<o, v>> >> : o \in Options, v \in Values}
           \cup {f \in {<< <<o, v>>, <<p, w>> >> : o \in Options, p \in Options, v \in Values, w \in Values} :
                   f[1][1] # f[2][1]}

Start ==
    /\ list' = Started(apps) /\ set' = Applied(conf, line)
    /\ page' = IF page = Nil THEN Nil ELSE [page EXCEPT !.applied = TRUE]
    /\ UNCHANGED <<apps, tab, conf, line, left>>

Next ==
    \/ \E t \in Tabs :
         \/ Show(t)
         \/ \E a \in Apps : AddApp(t, a) \/ \E i \in 0 .. MaxApps - 1 : ReplaceApp(t, i, a)
         \/ \E i \in 0 .. MaxApps - 1 : DeleteApp(t, i)
    \/ \E f \in Pages : SaveConfig(f)
    \/ Start

Spec == Init /\ [][Next]_vars

-----------------------------------------------------------------------------
TypeOK ==
    /\ apps \in Seq(Apps) /\ Len(apps) <= MaxApps
    /\ set \in [Options -> {"good", Default}]

\* process.cpp, refresh(): the list is the file with "Desktop" in front whenever the file
\* can be read, whatever it was in between.
ListIsTheFile == Readable(apps) => list = <<"Desktop">> \o apps

\* confighttp.cpp: a page that shows the file as it is changes the application it means,
\* and no other.
EditsAreLocal ==
    \A t \in Tabs, i \in 0 .. MaxApps - 1 :
        tab[t] = apps /\ i < Len(apps) =>
            /\ \A a \in Apps : /\ Replaced(i, a)[i + 1] = a
                               /\ \A n \in DOMAIN apps \ {i + 1} : Replaced(i, a)[n] = apps[n]
            /\ Len(Deleted(i)) = Len(apps) - 1
            /\ \A n \in DOMAIN Deleted(i) : Deleted(i)[n] = apps[IF n <= i THEN n ELSE n + 1]

\* config.cpp, parse(): what a page saved is in effect after the next start, unless the
\* command line says something else; what cannot be used is ignored and leaves the other
\* options alone, a list without an end apart.
SettingsAreApplied ==
    page # Nil /\ page.applied =>
        \A n \in DOMAIN page.lines : LET o == page.lines[n][1] IN
            /\ o \notin {line[m][1] : m \in DOMAIN line}
            /\ \A m \in DOMAIN page.lines : page.lines[m][2] # "open"
            => set[o] = IF page.lines[n][2] = "good" THEN "good" ELSE Default

-----------------------------------------------------------------------------
(* The inductive invariant that the proofs of the properties use.         *)

\* What a page has saved last is in the file, with one line for an option; after a start it
\* has been read.
PageIsTheFile ==
    /\ conf \in Pages /\ line \in Lines
    /\ page \in {Nil} \cup [lines : {conf}, applied : BOOLEAN]
    /\ page # Nil /\ page.applied => set = Applied(conf, line)

IInv == TypeOK /\ ListIsTheFile /\ PageIsTheFile
=============================================================================
