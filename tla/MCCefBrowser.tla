---------------------------- MODULE MCCefBrowser ----------------------------
(* One record after another for one view, or two views that share it.  What *)
(* a page may do besides opening and closing is explored one kind at a time.*)
EXTENDS CefBrowser, FiniteSets, TLC
CONSTANTS v1, v2, p1, p2, p3

Speaks == \E p \in Pages : page[p].said > 0 \/ page[p].owed # {}
Clipped == \E p \in Pages : page[p].region # None \/ page[p].place # 0
Browses == \E p \in Pages : page[p].url > 0
Opens == \E p \in Pages : page[p].opened > 0
OneKind == Cardinality({k \in {<<"s", Speaks>>, <<"c", Clipped>>,
                               <<"b", Browses>>, <<"o", Opens>>} : k[2]}) <= 1
Symmetry == Permutations(Views) \cup Permutations(Pages)
=============================================================================
