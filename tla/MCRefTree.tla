----------------------------- MODULE MCRefTree -----------------------------
(***************************************************************************)
(* A tree of files for TLC: two directories with files of the same name,   *)
(* files that cannot be used, and documents that refer to them and to      *)
(* themselves in chains, with siblings and in circles.                     *)
(***************************************************************************)
EXTENDS Integers, Sequences, TLC

Leaf(x) == [leaf |-> x]
Object(members) == [object |-> members]
Array(items) == [array |-> items]
RefTo(file, pointer) == [form |-> "text", file |-> file, pointer |-> pointer]
Ref(file, pointer) == [ref |-> RefTo(file, pointer), object |-> <<>>]
RefWith(file, pointer, siblings) == [ref |-> RefTo(file, pointer), object |-> siblings]

File(directory, content) == [directory |-> directory, allowed |-> TRUE, extension |-> "yaml", syntax |-> "yaml",
                             content |-> content]

\* Members 1, 2 and 3 of an object.
Three(a, b, c) == Object((1 :> a) @@ (2 :> b) @@ (3 :> c))
Two(a, b) == Object((1 :> a) @@ (2 :> b))
One(a) == Object(1 :> a)

MCTree ==
    [types      |-> File(".", Three(Leaf("a"), Ref("", <<1>>), Ref("sub/pet", <<>>))),
     sub_types  |-> File("sub", Three(Leaf("b"), Ref("", <<1>>), Ref("../types", <<2>>))),
     sub_pet    |-> File("sub", Three(Ref("types", <<2>>), Ref("types", <<3>>), Leaf("pet"))),
     other      |-> [File(".", Leaf("other")) EXCEPT !.extension = "yml", !.syntax = "json"],
     away       |-> [File("away", Leaf("away")) EXCEPT !.allowed = FALSE],
     broken     |-> [File(".", Leaf("broken")) EXCEPT !.syntax = "neither"],
     misnamed   |-> [File(".", Leaf("misnamed")) EXCEPT !.extension = "json"],
     mutual     |-> File(".", One(Ref("circle", <<1>>))),
     circle     |-> File(".", Two(Ref("mutual", <<>>), Leaf("in"))),
     usesCircle |-> File(".", Three(Ref("other", <<>>), Ref("circle", <<2>>), Ref("types", <<2>>))),
     intoSub    |-> File(".", Two(Ref("sub/types", <<>>), Ref("sub/pet", <<1>>))),
     aliases    |-> File(".", Array(<<Ref("types", <<1>>), Ref("sub/../types", <<2>>), Ref("other", <<>>)>>)),
     local      |-> File(".", Three(Ref("", <<2>>), RefWith("", <<3>>, 1 :> Leaf("x")), Two(Leaf("y"), Ref("", <<3, 1>>)))),
     siblings   |-> File(".", Two(RefWith("sub/types", <<>>, (3 :> Leaf("kept out")) @@ (4 :> Ref("types", <<1>>))),
                                  RefWith("other", <<>>, 1 :> Leaf("dropped")))),
     through    |-> File(".", Two(Ref("", <<2>>), RefWith("types", <<>>, 5 :> Ref("", <<3>>)))),
     indexed    |-> File(".", Two(Array(<<Leaf("p"), Ref("", <<1, 0>>)>>), Ref("", <<1, 1>>))),
     beyond     |-> File(".", Two(Array(<<Leaf("p")>>), Ref("", <<1, 1>>))),
     self       |-> File(".", One(Ref("", <<>>))),
     twins      |-> File(".", Two(Ref("", <<2>>), Ref("", <<1>>))),
     url        |-> File(".", One([Ref("", <<>>) EXCEPT !.ref.form = "url"])),
     number     |-> File(".", One([Ref("", <<>>) EXCEPT !.ref.form = "number"])),
     escape     |-> File(".", Two(Ref("types", <<1>>), Ref("away", <<>>))),
     unreadable |-> File(".", Two(Ref("types", <<1>>), Ref("broken", <<>>))),
     unparsable |-> File(".", Two(Ref("types", <<1>>), Ref("misnamed", <<>>))),
     missing    |-> File("sub", Two(Ref("pet", <<3>>), Ref("other", <<>>))),
     deep       |-> File(".", One(One(One(One(One(One(Leaf("bottom")))))))),
     deeper     |-> File(".", One(One(One(One(One(One(One(One(Leaf("bottom")))))))))),
     deepRef    |-> File(".", Two(One(One(One(Ref("other", <<>>)))), One(One(One(One(One(One(Ref("other", <<>>))))))))),
     chain      |-> File(".", Object((1 :> Ref("", <<2>>)) @@ (2 :> Ref("", <<3>>)) @@ (3 :> Ref("", <<4>>))
                                     @@ (4 :> RefWith("", <<5>>, 1 :> Leaf("end"))) @@ (5 :> One(Leaf("z")))))]

MCLookup ==
    (<<".", "types">> :> "types") @@ (<<"sub", "types">> :> "sub_types") @@ (<<".", "sub/types">> :> "sub_types")
    @@ (<<"sub", "../types">> :> "types") @@ (<<".", "sub/../types">> :> "types")
    @@ (<<".", "sub/pet">> :> "sub_pet") @@ (<<"sub", "pet">> :> "sub_pet")
    @@ (<<".", "other">> :> "other") @@ (<<".", "away">> :> "away") @@ (<<".", "broken">> :> "broken")
    @@ (<<".", "misnamed">> :> "misnamed")
    @@ (<<".", "circle">> :> "circle") @@ (<<".", "mutual">> :> "mutual")

MCLimits == {0, 2, 3}

=============================================================================
