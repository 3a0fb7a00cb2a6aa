------------------------------ MODULE Awakening ------------------------------
(***************************************************************************)
(* How the answer of the memory service becomes a system prompt            *)
(* (business_domain/awakening_domain.py, called by load_prompt in main.py).*)
(*                                                                         *)
(* A layer is a name and a value, a value is known by its shape, and the   *)
(* text of an item is the item.  A prompt is a sequence of sections, a     *)
(* section a heading and its blocks, with a blank line between blocks.     *)
(***************************************************************************)
EXTENDS Naturals, FiniteSets, SequencesExt, Picking

CONSTANTS
    Payloads,   \* answers of the memory service: sequences of layers, names distinct
    Selections, \* settings of AWAKENING_LAYERS, <<>> if it is not set
    Exclusions, \* settings of AWAKENING_EXCLUDE
    NameOrder   \* every dotted name, as strings are sorted

-----------------------------------------------------------------------------
CANONICAL_ORDER ==
    << "shared.user_profile", "shared.reasoning", "shared.knowledge",
       "identity", "reasoning", "emotional",
       "knowledge_index", "episodic_index", "latest_episode" >>

IDENTITY_LAYER == "identity"

_META_KEYS == {"agent_id"}

\* The shapes of values: nothing (None or ""), zero (0 or False), a plain value, a
\* record, a blank (a string of white space, or a record with neither title nor
\* content), a list of items or a group of layers.
is_group(value) == value.shape = "group"

Empty(value) ==
    \/ value.shape = "nothing"
    \/ value.shape = "list" /\ value.items = <<>>
    \/ is_group(value) /\ value.layers = <<>>

Dotted(name, inner) == name \o "." \o inner

\* The assignments to flat, in order.
flatten_layers(sent) ==
    FlattenSeq([i \in DOMAIN sent |->
        LET name == sent[i].name  value == sent[i].value
        IN  IF name \in _META_KEYS THEN <<>>
            ELSE IF is_group(value)
            THEN [j \in DOMAIN value.layers |->
                    [name |-> Dotted(name, value.layers[j].name),
                     value |-> value.layers[j].value]]
            ELSE << sent[i] >>])

Names(flat) == [i \in DOMAIN flat |-> flat[i].name]

\* A name assigned twice has its last value.
At(flat, name) == flat[SelectLastInSeq(flat, LAMBDA layer : layer.name = name)].value

is_absent(sent) ==
    \A i \in DOMAIN sent :
        sent[i].name = IDENTITY_LAYER =>
            Empty(sent[i].value) \/ sent[i].value.shape = "zero"

-----------------------------------------------------------------------------
\* Items of a list: a whole record, a whole record whose text is blank, an index
\* entry, a plain value, or nothing.
OneLiner(item) == item \in {"entry", "value"}

Flush(blocks, bullets) == IF bullets = <<>> THEN blocks ELSE Append(blocks, bullets)

\* Slip: the bullets gathered so far are not cleared.
TakeUncleared(acc, item) ==
    [blocks  |-> IF item = "whole" THEN Append(Flush(acc.blocks, acc.bullets), <<item>>)
                 ELSE acc.blocks,
     bullets |-> IF OneLiner(item) THEN Append(acc.bullets, item) ELSE acc.bullets]

\* Slip: every bullet is a block.
TakeSingly(acc, item) ==
    [blocks  |-> IF item = "whole" \/ OneLiner(item) THEN Append(acc.blocks, <<item>>)
                 ELSE acc.blocks,
     bullets |-> <<>>]

\* One turn of the loop over the items.
Take(acc, item) ==
    CASE item = "whole" -> [blocks  |-> Append(Flush(acc.blocks, acc.bullets), <<item>>),
                            bullets |-> <<>>]
      [] item = "blank" -> [blocks  |-> Flush(acc.blocks, acc.bullets),
                            bullets |-> <<>>]
      [] OneLiner(item) -> [acc EXCEPT !.bullets = Append(@, item)]
      [] OTHER          -> acc

\* The loop, and what is left of bullets after it.
Blocks(items) ==
    LET acc[n \in 0..Len(items)] ==
          IF n = 0 THEN [blocks |-> <<>>, bullets |-> <<>>] ELSE Take(acc[n - 1], items[n])
        end == acc[Len(items)]
    IN  Flush(end.blocks, end.bullets)

\* A value that is no list: a blank is its heading with nothing under it.
Text(value) == IF value.shape = "blank" THEN <<>> ELSE <<value.shape>>

\* No blocks is no text at all, so not even a heading.
render_layer(name, value) ==
    [name |-> name,
     blocks |-> IF Empty(value) THEN <<>>
                ELSE IF value.shape = "list" THEN Blocks(value.items)
                ELSE << Text(value) >>]

\* Slip: layers that are not known come as they were sent.
layer_order_as_sent(present, configured) ==
    IF configured # <<>>
    THEN Only(configured, ToSet(present))
    ELSE Only(CANONICAL_ORDER, ToSet(present))
         \o Only(present, ToSet(present) \ ToSet(CANONICAL_ORDER))

layer_order(present, configured) ==
    IF configured # <<>>
    THEN Only(configured, ToSet(present))
    ELSE Only(CANONICAL_ORDER, ToSet(present))
         \o Only(NameOrder, ToSet(present) \ ToSet(CANONICAL_ORDER))

assemble_system_prompt(sent, configured, excluded) ==
    LET flat  == flatten_layers(sent)
        order == Only(layer_order(Names(flat), configured), ToSet(Names(flat)) \ excluded)
        text  == [i \in DOMAIN order |-> render_layer(order[i], At(flat, order[i]))]
    IN  Picked(text, {i \in DOMAIN text : text[i].blocks # <<>>})

-----------------------------------------------------------------------------
Items == {"whole", "blank", "entry", "value", "nothing"}

IsLayers(layers) ==
    /\ layers \in Seq(ToSet(layers))
    /\ \A layer \in ToSet(layers) :
          /\ layer = [name |-> layer.name, value |-> layer.value]
          /\ layer.value.shape = "list" => layer.value.items \in Seq(Items)

\* A dict of JSON, whose groups are dicts in their turn.
IsPayload(sent) ==
    /\ IsLayers(sent)
    /\ \A layer \in ToSet(sent) : is_group(layer.value) => IsLayers(layer.value.layers)

ASSUME AwakeningAssumption ==
    /\ Selections \subseteq Seq(STRING)
    /\ NameOrder \in Seq(STRING)
    /\ IsInjective(NameOrder)
    /\ \A sent \in Payloads :
          IsPayload(sent) /\ ToSet(Names(flatten_layers(sent))) \subseteq ToSet(NameOrder)

\* The layers of an answer, said without flatten_layers.
Layers(sent) ==
    LET data == {layer \in ToSet(sent) : layer.name \notin _META_KEYS}
    IN  {layer \in data : ~is_group(layer.value)} \cup
        UNION {{[inner EXCEPT !.name = Dotted(layer.name, @)] : inner \in ToSet(layer.value.layers)} :
                 layer \in {l \in data : is_group(l.value)}}

\* Two layers of an answer end up under one name: one is called "a.b", the other is
\* b in the group a.  One of them is lost.
Clash(sent) == \E l, m \in Layers(sent) : l # m /\ l.name = m.name

\* What of a value is text.
Shown(value) ==
    IF Empty(value) THEN <<>>
    ELSE IF value.shape = "list"
    THEN Only(value.items, ToSet(value.items) \ {"nothing", "blank"})
    ELSE Text(value)

\* Has a value a heading?  A list has one if it shows anything.
Headed(value) == IF value.shape = "list" THEN Shown(value) # <<>> ELSE ~Empty(value)

\* The answers a prompt is made from.
Awakened == {sent \in Payloads : ~is_absent(sent)}

\* "Every layer the server sends is rendered; nothing is dropped because of how it
\* looks" (awakening_domain.py:12-13): each section of a prompt is all of what some
\* layer asked for holds, in the order sent; for each name asked for one layer of that
\* name, so the only one if names do not clash, is there in full, unless it has no
\* heading to stand under; and under one heading each, unless the configuration repeats
\* a name.
NothingLost ==
    \A sent \in Awakened, configured \in Selections, excluded \in Exclusions :
        LET prompt == assemble_system_prompt(sent, configured, excluded)
            asked == {layer \in Layers(sent) :
                        /\ configured # <<>> => Contains(configured, layer.name)
                        /\ layer.name \notin excluded}
            said == {[name |-> s.name, text |-> FlattenSeq(s.blocks)] : s \in ToSet(prompt)}
            InFull(layer) == [name |-> layer.name, text |-> Shown(layer.value)]
        IN  /\ said \subseteq {InFull(layer) : layer \in {l \in asked : Headed(l.value)}}
            /\ \A l \in asked : \E m \in asked :
                  m.name = l.name /\ (Headed(m.value) => InFull(m) \in said)
            /\ IsInjective(configured) => IsInjective(Names(prompt))

\* "Whole records are sections (blank line between); one-liners are bullets on
\* consecutive lines" (awakening_domain.py:132-133): a whole record is a block of
\* its own, and one-liners share a block unless a record stood between them.
WholeRecordsApart ==
    \A sent \in Awakened, configured \in Selections, excluded \in Exclusions :
        \A section \in ToSet(assemble_system_prompt(sent, configured, excluded)) :
            LET blocks == section.blocks
                Bullets(k) == \A j \in DOMAIN blocks[k] : OneLiner(blocks[k][j])
            IN  /\ \A k \in DOMAIN blocks : Len(blocks[k]) = 1 \/ Bullets(k)
                /\ (\A l \in Layers(sent) : l.name = section.name /\ l.value.shape = "list" =>
                                               ~Contains(l.value.items, "blank"))
                   => \A k \in 1..Len(blocks) - 1 : ~Bullets(k) \/ ~Bullets(k + 1)

Swapped(s, i, j) == [s EXCEPT ![i] = s[j], ![j] = s[i]]

Distinct == {sent \in Awakened : ~Clash(sent)}

\* The order of a prompt is the configuration's or the canonical one, then by name
\* (awakening_domain.py:156-158), never the order in which the service sent the layers.
SentOrderIrrelevant ==
    \A sent \in Distinct, configured \in Selections, excluded \in Exclusions :
        \A i, j \in DOMAIN sent :
            i < j => assemble_system_prompt(sent, configured, excluded)
                       = assemble_system_prompt(Swapped(sent, i, j), configured, excluded)
=============================================================================
