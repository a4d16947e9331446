------------------------------ MODULE MCStorage ------------------------------
(***************************************************************************)
(* Instances of Storage: three pages of three bytes, in blocks of one      *)
(* write.  ignSetPage is written byte by byte, the first two bytes of      *)
(* boostvvtPage are those of tables that are written together, and         *)
(* fuelMap2Page has the two forms of bytes that are not counted as such.   *)
(***************************************************************************)
EXTENDS Storage, TLC

CONSTANTS ignSetPage, boostvvtPage, fuelMap2Page

B(g, c) == [guard |-> g, counts |-> c]

MCOrder == (ignSetPage :> 1) @@ (boostvvtPage :> 2) @@ (fuelMap2Page :> 3)

MCLayout ==
    (ignSetPage :> <<B(1, "changed"), B(2, "changed"), B(3, "changed")>>)
    @@ (boostvvtPage :> <<B(1, "changed"), B(1, "changed"), B(3, "never")>>)
    @@ (fuelMap2Page :> <<B(0, "always"), B(2, "changed"), B(3, "never")>>)

MCTunings ==
    {<<ignSetPage, 3>>, <<boostvvtPage, 3>>,
     <<fuelMap2Page, 2>>, <<fuelMap2Page, 3>>} \X {1, 2}

\* As in updates.ino, one conversion comes before the pages are moved, and others
\* come after.  Each but the last converts more than a block.
MCUpdate ==
    <<[kind |-> "adds",
       converts |-> {<<ignSetPage, 2>>, <<ignSetPage, 3>>, <<fuelMap2Page, 1>>}],
      [kind |-> "moves", converts |-> {}],
      [kind |-> "sets",
       converts |-> {<<ignSetPage, 1>>, <<boostvvtPage, 1>>, <<boostvvtPage, 2>>,
                     <<fuelMap2Page, 3>>}],
      [kind |-> "sets", converts |-> {<<fuelMap2Page, 2>>}]>>

MCFilter == <<ignSetPage, 1>>
MCAddress == <<boostvvtPage, 3>>
=============================================================================
