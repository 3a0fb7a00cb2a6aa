---------------------------- MODULE MCAwakening ----------------------------
(* Small answers and settings for Awakening.                                 *)
EXTENDS Awakening

Layer(name, value) == [name |-> name, value |-> value]
Shape(shape) == [shape |-> shape]
List(items) == [shape |-> "list", items |-> items]
Group(inner) == [shape |-> "group", layers |-> inner]

\* Every list of up to four items, next to an identity.
Lists == BoundedSeq({"whole", "blank", "entry", "value", "nothing"}, 4)

Listings == {<<Layer("identity", Shape("record")), Layer("notes", List(items))>> : items \in Lists}

\* Layers of every shape.
Samples ==
    {Layer("identity", v) : v \in {Shape("nothing"), Shape("zero"), Shape("record"),
                                   Shape("blank"), List(<<>>), List(<<"nothing">>), List(<<"whole", "whole">>)}}
    \cup {Layer("identity", Group(<<Layer("alpha", Shape("value"))>>))}
    \cup {Layer("shared", Group(inner)) : inner \in {
            <<>>,
            <<Layer("reasoning", List(<<"entry">>)), Layer("alpha", Group(<<>>))>>,
            <<Layer("alpha", Group(<<Layer("deep", Shape("value"))>>)),
              Layer("reasoning", Shape("record"))>>}}
    \cup {Layer("shared.reasoning", Shape("zero")), Layer("zeta", Shape("value")),
          Layer("zeta", Shape("blank")),
          Layer("agent_id", Shape("value"))}

\* Every answer of up to four layers, in every order.
Answers ==
    {sent \in BoundedSeq(Samples, 4) : IsInjective(Names(sent))}

MCPayloads == Listings \cup Answers

MCSelections ==
    {<<>>, <<"shared.reasoning", "identity">>, <<"zeta", "absent", "shared.alpha", "zeta">>}

MCNameOrder ==
    << "identity", "identity.alpha", "notes", "shared.alpha", "shared.reasoning", "zeta" >>
=============================================================================
