---------------------------- MODULE MCSymbolGraph ----------------------------
(* Two Python files, one of TypeScript and one of JavaScript: with four    *)
(* files a run for one of them refreshes it, a run for two builds anew.    *)
EXTENDS SymbolGraph

CONSTANTS p1, p2

N(type, name, up, row, last, refs, is) ==
  [type |-> type, name |-> name, up |-> up, row |-> row, last |-> last, refs |-> refs, is |-> is]

(* from b import make as build, Color                                      *)
(* class Task: run() calls self.stop(), which calls build() and Color().   *)
TaskText ==
  <<N("import", <<"b">>, 0, 1, 1, {<<"build", "make">>, <<"Color", "Color">>}, {"from"}),
    N("class", <<"Task">>, 0, 2, 6, {<<"Color">>}, {}),
    N("assignment", <<"hue">>, 2, 3, 3, {<<"Color">>}, {"typed"}),
    N("function", <<"run">>, 2, 4, 4, {"self", "now"}, {}),
    N("call", <<"self", "stop">>, 4, 4, 4, {}, {}),
    N("name", <<"now">>, 4, 4, 4, {}, {"condition"}),
    N("function", <<"stop">>, 2, 5, 6, {"self"}, {}),
    N("call", <<"build">>, 7, 5, 5, {}, {}),
    N("call", <<"Color">>, 7, 6, 6, {}, {"pascal"})>>

(* import b; run() calls b.make() and an unknown name.                     *)
PlainText ==
  <<N("import", <<"b">>, 0, 1, 1, {}, {}),
    N("function", <<"run">>, 0, 2, 4, {}, {}),
    N("call", <<"b", "make">>, 2, 3, 3, {}, {}),
    N("call", <<"open">>, 2, 4, 4, {}, {})>>

(* class Color(Enum) and class Dark(Color); make() with a function in it.  *)
ColorText ==
  <<N("class", <<"Color">>, 0, 1, 2, {<<"Enum">>}, {}),
    N("assignment", <<"RED">>, 1, 2, 2, {}, {"literal"}),
    N("class", <<"Dark">>, 0, 3, 3, {<<"Color">>}, {}),
    N("function", <<"make">>, 0, 4, 6, {"x"}, {}),
    N("function", <<"open">>, 4, 5, 5, {}, {}),
    N("call", <<"open">>, 4, 6, 6, {}, {}),
    N("assignment", <<"MAX">>, 0, 7, 7, {}, {"upper", "literal"})>>

(* A property with a setter: two methods of one name.                      *)
PropertyText ==
  <<N("class", <<"Color">>, 0, 1, 3, {}, {}),
    N("function", <<"hue">>, 1, 2, 2, {"self"}, {}),
    N("function", <<"hue">>, 1, 3, 3, {"self"}, {}),
    N("function", <<"make">>, 0, 4, 4, {}, {})>>

(* import { Base } from './base'; class View extends Base, a function in a *)
(* const, an enum.                                                         *)
ViewText ==
  <<N("import", <<"base">>, 0, 1, 1, {<<"Base", "Base">>}, {"relative"}),
    N("class", <<"View">>, 0, 2, 3, {<<"Base">>}, {}),
    N("method", <<"draw">>, 2, 3, 3, {}, {}),
    N("new", <<"Base">>, 3, 3, 3, {}, {}),
    N("declaration", <<"show">>, 0, 4, 5, {}, {"const"}),
    N("arrow", <<>>, 5, 4, 5, {"x"}, {}),
    N("call", <<"open">>, 6, 5, 5, {}, {}),
    N("enum", <<"Mode">>, 0, 6, 6, {}, {}),
    N("assignment", <<"ON">>, 8, 6, 6, {}, {})>>

(* class Base; open() calls show(), which a wrapped import brings.         *)
BaseText ==
  <<N("import", <<"view">>, 0, 1, 3, {<<"show", "show">>}, {"relative", "wrapped"}),
    N("class", <<"Base">>, 0, 4, 4, {}, {}),
    N("function", <<"open">>, 0, 5, 6, {}, {}),
    N("call", <<"show">>, 3, 6, 6, {}, {})>>

MCFile == 1..4
MCLang == <<"python", "python", "typescript", "javascript">>
MCDirOf == [f \in MCFile |-> IF f <= 2 THEN "root" ELSE "web"]
MCParent == [d \in {"root", "web"} |-> "root"]
MCTexts == <<{TaskText, PlainText}, {ColorText, PropertyText}, {ViewText}, {BaseText}>>
MCAt == <<"root", <<"b">>, "module">> :> 2 @@ <<"web", <<"base">>, "suffixed">> :> 4
          @@ <<"web", <<"view">>, "suffixed">> :> 3
MCAlias == <<"view">> :> <<<<"web", <<"view">>>>>>
MCSymmetry == Permutations(Proc)

MCInit == Init /\ Present = File
MCSpec == MCInit /\ [][Next]_vars
=============================================================================
