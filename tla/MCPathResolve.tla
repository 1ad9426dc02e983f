---------------------------- MODULE MCPathResolve ----------------------------
(***************************************************************************)
(* Instances of PathResolve for TLC: trees with chains and cycles of links, *)
(* absolute, relative, broken and missing targets, and files whose data is  *)
(* shorter or longer than announced.                                        *)
(***************************************************************************)
EXTENDS PathResolve, TLC

CONSTANTS r, d, f, x, y      \* root, directory, file and two symlinks

MCNodes == {r, d, f, x, y}
Kind(n) == CASE n \in {r, d} -> "Directory" [] n = f -> "Regular" [] OTHER -> "Symlink"

(* a is in the root and may be anything; b is in the root or in d, which may *)
(* even be its own child.                                                    *)
Tree(ra, rb, da, tx, ty, sz, av) ==
    [root |-> r,
     kind |-> [n \in MCNodes |-> Kind(n)],
     child |-> [e \in {<<r, "a">>, <<r, "b">>, <<d, "a">>} |->
                    IF e[1] = d THEN da ELSE IF e[2] = "a" THEN ra ELSE rb],
     target |-> [n \in {x, y} |-> IF n = x THEN tx ELSE ty],
     size |-> [n \in MCNodes |-> IF n = f THEN sz ELSE 0],
     avail |-> [n \in MCNodes |-> IF n = f THEN av ELSE 0]]

MCTargets ==
    {<<"a">>, <<"b">>, <<"", "b">>, <<"a", "a">>, <<"..", "b">>, <<"", "">>, <<".", "a">>, NoTarget, NotUtf8}
ResolveTrees ==
    {Tree(ra, rb, da, tx, ty, 1, 1) :
        ra \in {d, x}, rb \in {d, f, y}, da \in {d, f, x, y}, tx \in MCTargets, ty \in MCTargets}
ReadTrees ==
    {Tree(d, f, f, <<"b">>, <<"a">>, sz, av) : sz \in 0..5, av \in 0..5}

ResolvePaths == {<<"a">>, <<"", "a", "a">>, <<"b", "", "a">>, <<"a", ".", "b">>, <<"a", "..", "b">>}
ReadPaths == {<<"b">>, <<"", "a", "a">>, <<"a">>}
AllTrees == ResolveTrees \cup ReadTrees
AllPaths == ResolvePaths \cup ReadPaths
==============================================================================
