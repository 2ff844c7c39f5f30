-------------------------- MODULE MCAnalysisStage --------------------------
(* Binaries and commands for AnalysisStage: "v2" is "v1" rebuilt with the   *)
(* same function addresses, "moved" has other addresses, the modules "mod"  *)
(* and "odd" have functions of one name, an alias and an empty function.    *)
EXTENDS AnalysisStage

Sym(nm, start, size) == [name |-> nm, start |-> start, size |-> size]
MCSymbols == [
  v1    |-> <<Sym("main", 1, 2), Sym("put", 3, 1), Sym("puts", 3, 1)>>,
  v2    |-> <<Sym("main", 1, 2), Sym("put", 3, 1)>>,
  moved |-> <<Sym("main", 1, 3), Sym("put", 4, 1)>>,
  mod   |-> <<Sym("init", 0, 0), Sym("init", 1, 1), Sym("init", 2, 1), Sym("probe", 3, 2),
              Sym("alias", 3, 2), Sym("init", 5, 1)>>,
  odd   |-> <<Sym("init", 1, 1), Sym("init", 2, 1)>> ]
MCUnknown == {<<"odd", 2>>}

MCCommands == [bin : {"v1", "v2", "moved"}, out : {"a"}, kernel : {FALSE}, cache : BOOLEAN]
         \cup [bin : {"v1"}, out : {"b"}, kernel : {FALSE}, cache : {TRUE}]
         \cup [bin : {"mod", "odd"}, out : {"a"}, kernel : {TRUE}, cache : {FALSE}]
=============================================================================
