------------------------------ MODULE MCCfgLoader ------------------------------
(***************************************************************************)
(* CfgLoader with the shipped files, shortened: bup includes spt and me,   *)
(* spt includes csme.  The include sections stand at every place of their  *)
(* files, include one or two files, or a file that is not there.  In some   *)
(* a device has a type that is missing or that nobody registered.           *)
(***************************************************************************)
EXTENDS CfgLoader

Plain(type, name) ==
  [type |-> type, name |-> name, entries |-> << >>, device |-> "", sparse |-> FALSE,
   needs |-> {}, makes |-> {}]
DevOf(device, name, needs, makes) ==
  [Plain("device", name) EXCEPT !.device = device, !.sparse = device = "",
                                !.needs = needs, !.makes = makes \cup {name}]
Dev(name, needs, makes) == DevOf(name, name, needs, makes)
Sparse(section) == [section EXCEPT !.sparse = TRUE]
Incl(paths) ==
  [Plain("include", "incl") EXCEPT !.entries =
     [i \in DOMAIN paths |->
        [type |-> IF paths[i] = "" THEN "int64" ELSE "string", path |-> paths[i]]]]

Csme == <<Dev("misa", {"cpu"}, {"bus_prim"}), Dev("p2g", {"bus_prim"}, {"bus_gasket"}),
          Dev("att", {"bus_gasket"}, {"bus_pch"})>>
Extra == <<Sparse(Dev("heci", {"bus_gasket"}, {}))>>
Strange(device) == <<DevOf(device, "strange", {}, {})>>
Me == <<Plain("library", "syslib")>>
Spt(entries, i) ==
  InsertAt(<<Dev("thub", {"bus_pch"}, {}), Plain("library", "romlib")>>, i, Incl(entries))
Bup(entries, i) ==
  InsertAt(<<Dev("cpu", {}, {}), Sparse(Plain("cfg", "loader"))>>, i, Incl(entries))

McFileSystems ==
  {("bup" :> Bup(be, bi)) @@ ("spt" :> Spt(se, si)) @@ ("csme" :> Csme)
     @@ ("me" :> Me) @@ ("extra" :> Extra)
     @@ ("untyped" :> Strange("")) @@ ("unknown" :> Strange("strange")) :
     bi \in 1 .. 3, si \in 1 .. 3,
     be \in {<<"spt", "me">>, <<"me", "spt">>, <<"spt", "", "me">>, <<"spt">>,
             <<"spt", "me", "me">>, <<"spt", "me", "extra">>, <<"spt", "me", "untyped">>,
             <<"unknown", "spt", "me">>},
     se \in {<<"csme">>, <<"csme", "extra">>, <<"extra", "csme">>, <<"csme", "csme">>,
             <<"csme", "none">>}}

McDeviceTypes == {"misa", "p2g", "att", "heci", "thub", "cpu"}
=============================================================================
