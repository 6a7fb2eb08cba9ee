--------------------------- MODULE MCClonePackage ---------------------------
(***************************************************************************)
(* The package TLC checks ClonePackage on.                                 *)
(***************************************************************************)
EXTENDS ClonePackage

Object(type, name, main) == [type |-> type, name |-> name, parts |-> [p \in {"main"} |-> main]]

View == <<"view", 0>>     \* and a copy of it that has the suffix already
Class == <<"class", 0>>
Far == <<"intf", 2>>      \* too long with one suffix more
Service == <<"/ns/service", 0>>
Type == <<"type", 0>>     \* a data element, which is skipped

\* A view and its suffixed copy, a class with local classes and tests, an
\* interface whose name is too long, a service and its binding, a data element.
Package ==
  {Object("DDLS", View, {}),
   Object("DDLS", Suffixed(View), {View, Suffixed(View)}),
   [type |-> "CLAS", name |-> Class,
    parts |-> [p \in {"main", "implementations", "testclasses"} |->
                 IF p = "testclasses" THEN {Class} ELSE {View, Suffixed(View), Far, Service, Type}]],
   Object("INTF", Far, {}),
   Object("SRVD", Service, {Suffixed(View)}),
   Object("SRVB", View, {Service}),
   Object("DTEL", Type, {})}
=============================================================================
