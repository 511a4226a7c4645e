-------------------------------- MODULE Graph ------------------------------
(***************************************************************************)
(* The reader of prompt graphs: what the library records of a picture or a *)
(* workflow.  A graph is a sequence of nodes, a node a sequence of inputs, *)
(* an input a text or a link to an output of another node.  A file saved   *)
(* by the user interface has slots and nameless widget values instead, and *)
(* the subgraphs it declares.                                              *)
(***************************************************************************)
EXTENDS Naturals, Sequences, FiniteSets, SequencesExt

CONSTANTS
    Files,          \* the files that are read: [fmt, nodes, defs]
    ModelFiles,     \* texts that end like a model file
    Hints(_),       \* the tokens of _guess_category in a name
    ReadsNegative(_, _),    \* a text is shorter than another or has a bad word
    MAX_DEPTH,      \* how far links are followed
    MAX_SUBGRAPH_DEPTH

VARIABLES
    file,       \* the file
    summary     \* what was recorded of it

graphVars == <<file, summary>>

Node(g, id) == CHOOSE n \in ToSet(g) : n.id = id
Exists(g, id) == \E n \in ToSet(g) : n.id = id

node_inputs(g, id) == IF Exists(g, id) THEN Node(g, id).inputs ELSE <<>>
class_type(g, id) == IF Exists(g, id) THEN Node(g, id).class ELSE "none"

Has(inputs, name) == \E i \in DOMAIN inputs : inputs[i].name = name
Value(inputs, name) == inputs[CHOOSE i \in DOMAIN inputs : inputs[i].name = name].value
Names(inputs) == [i \in DOMAIN inputs |-> inputs[i].name]

is_link(v) == v.is = "link"
Linked(inputs, name) == Has(inputs, name) /\ is_link(Value(inputs, name))

\* A result: the text, how it was found, the node it was found in.
Resolved(t, o, n) == [text |-> t, origin |-> o, node |-> n]
UNRESOLVED == Resolved("", "unresolved", 0)
IsResolved(r) == r.origin = "literal"
as_text(r) == r.text

\* The first of the results that serves, or the last resort.
FirstOf(rs, Serves(_), otherwise) ==
    IF \E i \in DOMAIN rs : Serves(rs[i])
    THEN rs[CHOOSE i \in DOMAIN rs : Serves(rs[i]) /\ \A j \in 1..(i - 1) : ~Serves(rs[j])]
    ELSE otherwise

Found(r) == IsResolved(r) /\ as_text(r) # ""

VALUE_PRODUCER_MAP(class) ==
    CASE class = "PrimitiveString" -> <<"value">>
      [] class = "JoinStrings" -> <<"string1", "string2">>
      [] class = "CLIPTextEncode" -> <<"text">>
      [] OTHER -> <<>>

RECURSIVE resolve_value(_, _, _, _, _)
resolve_value(g, v, owner, seen, depth) ==
    LET src == v.node
        class == class_type(g, src)
        inputs == node_inputs(g, src)
        names == IF class = "Reroute" THEN Names(inputs) ELSE VALUE_PRODUCER_MAP(class)
        tried == SelectSeq(names, LAMBDA n : Has(inputs, n))
        inner == [i \in DOMAIN tried |->
            resolve_value(g, Value(inputs, tried[i]), src, seen \cup {src}, depth + 1)]
        usable == FirstOf(inner, Found, UNRESOLVED)
    IN  IF ~is_link(v) THEN Resolved(v.text, "literal", owner)
        ELSE IF src \in seen \/ depth >= MAX_DEPTH \/ ~Exists(g, src) THEN UNRESOLVED
        ELSE IF Found(usable) THEN Resolved(usable.text, "literal", src)
        ELSE Resolved("", "link", src)

-----------------------------------------------------------------------------
(* The text behind a conditioning *)

IsZeroOut(class) == class = "ConditioningZeroOut"
IsEncoder(class) ==
    class \in {"TextEncodeEdit", "Reroute"} \/ VALUE_PRODUCER_MAP(class) # <<>>

NEGATIVE_INPUT_NAMES == <<"negative_prompt", "negative">>
POSITIVE_INPUT_NAMES == <<"text", "prompt", "value">>
TEXT_INPUT_NAMES == <<"text", "prompt", "positive", "value">>

\* On its second output an encoder with a negative input has that text only.
Exclusive(inputs, slot) ==
    slot >= 1 /\ \E n \in ToSet(NEGATIVE_INPUT_NAMES) : Has(inputs, n)

EncoderInputNames(inputs, slot) ==
    SelectSeq(IF Exclusive(inputs, slot) THEN NEGATIVE_INPUT_NAMES ELSE POSITIVE_INPUT_NAMES,
              LAMBDA n : Has(inputs, n))

\* mutant of FollowFirst: the output does not matter
FollowPositive(inputs, slot) ==
    SelectSeq(<<"positive", "negative", "conditioning", "conditioning_1", "conditioning_to">>,
              LAMBDA n : Linked(inputs, n))

\* The inputs a conditioning is looked for in first.
FollowFirst(inputs, slot) ==
    LET pos == Linked(inputs, "positive")
        neg == Linked(inputs, "negative")
    IN  (CASE pos /\ neg -> IF slot >= 1 THEN <<"negative">> ELSE <<"positive">>
           [] pos /\ ~neg -> <<"positive">>
           [] ~pos /\ neg -> <<"negative">>
           [] OTHER -> <<>>)
        \o <<"conditioning", "conditioning_1", "conditioning_to">>

RECURSIVE TextFromConditioning(_, _, _, _, _)
TextFromConditioning(g, id, slot, depth, seen) ==
    LET class == class_type(g, id)
        inputs == node_inputs(g, id)
        names == EncoderInputNames(inputs, slot)
        read == [i \in DOMAIN names |->
            resolve_value(g, Value(inputs, names[i]), id, {}, depth)]
        ended(r) == IsResolved(r) \/ r.origin = "link"
        own == FirstOf(read, ended, UNRESOLVED)
        first == FollowFirst(inputs, slot)
        order == first \o SelectSeq(Names(inputs), LAMBDA n : n \notin ToSet(first))
        links == SelectSeq(order, LAMBDA n : Linked(inputs, n))
        upstream(i) == TextFromConditioning(g, Value(inputs, links[i]).node,
            Value(inputs, links[i]).slot, depth + 1, seen \cup {id})
        beside == SelectSeq(TEXT_INPUT_NAMES, LAMBDA n : Has(inputs, n))
        named == [i \in DOMAIN beside |->
            resolve_value(g, Value(inputs, beside[i]), id, {}, depth)]
    IN  IF depth > MAX_DEPTH \/ id \in seen THEN UNRESOLVED
        ELSE IF IsZeroOut(class) THEN Resolved("", "zeroed", id)
        ELSE IF IsEncoder(class) /\ ended(own)
        THEN IF IsResolved(own) /\ own.text = "" THEN Resolved("", "empty", id) ELSE own
        ELSE IF IsEncoder(class) /\ Exclusive(inputs, slot) THEN Resolved("", "empty", id)
        ELSE FirstOf([i \in DOMAIN links |-> upstream(i)], IsResolved,
                     FirstOf(named, Found, UNRESOLVED))

\* Without a sampler that leads to a text: of the texts in the order of the
\* nodes the first is the positive one, one that reads like it the negative.
FallbackPrompts(g) ==
    LET encoders == SelectSeq(g, LAMBDA n : n.class \in {"CLIPTextEncode", "TextEncodeEdit"} /\
                        \E m \in {"text", "prompt"} : Has(n.inputs, m))
        texts == [i \in DOMAIN encoders |-> resolve_value(g, Value(encoders[i].inputs,
                        IF Has(encoders[i].inputs, "text") THEN "text" ELSE "prompt"),
                        encoders[i].id, {}, 0)]
        usable == SelectSeq(texts, LAMBDA r : as_text(r) # "")
    IN  [pos |-> IF Len(usable) > 0 THEN usable[1] ELSE UNRESOLVED,
         neg |-> IF Len(usable) < 2 THEN UNRESOLVED
                 ELSE FirstOf(SubSeq(usable, 2, Len(usable)),
                              LAMBDA r : ReadsNegative(r.text, usable[1].text), usable[2])]

\* The samplers, those with more of the usual inputs first.
Samplers(g) ==
    SortSeq(SelectSeq(g, LAMBDA n : n.class = "KSampler"),
            LAMBDA m, n : \/ Len(m.inputs) > Len(n.inputs)
                          \/ Len(m.inputs) = Len(n.inputs) /\ m.id < n.id)

Prompt(g, s, name) ==
    IF ~Has(s.inputs, name) THEN UNRESOLVED
    ELSE LET v == Value(s.inputs, name)
         IN  IF is_link(v) THEN TextFromConditioning(g, v.node, v.slot, 0, {})
             ELSE Resolved(v.text, "literal", s.id)

\* Both inputs consume one output: there is no negative prompt.
Shared(s) ==
    /\ Linked(s.inputs, "positive") /\ Linked(s.inputs, "negative")
    /\ Value(s.inputs, "positive") = Value(s.inputs, "negative")

Prompts(g, s) ==
    [pos |-> Prompt(g, s, "positive"),
     neg |-> IF Shared(s) THEN Resolved("", "same_as_positive", s.id)
             ELSE Prompt(g, s, "negative")]

HasText(p) == as_text(p.pos) # "" \/ as_text(p.neg) # ""

\* One text from one node for both is a duplicate, not a negative prompt.
Distinct(p) ==
    IF p.neg.text # "" /\ p.neg.text = p.pos.text /\ p.neg.node = p.pos.node
    THEN [p EXCEPT !.neg = Resolved("", "same_as_positive", p.pos.node)] ELSE p

summarize_graph(g) ==
    LET tried == [i \in DOMAIN Samplers(g) |-> Prompts(g, Samplers(g)[i])]
        last == IF tried = <<>> THEN [pos |-> UNRESOLVED, neg |-> UNRESOLVED]
                ELSE tried[Len(tried)]
        found == FirstOf(tried, HasText, last)
        guess == FallbackPrompts(g)
    IN  Distinct(IF ~HasText(found) /\ as_text(guess.pos) # "" THEN guess ELSE found)

-----------------------------------------------------------------------------
(* Files of the user interface *)

\* The widgets of a class in the order of their values.
WIDGET_NAMES(class) ==
    CASE class = "CLIPTextEncode" -> <<"text">>
      [] class = "DualCLIPLoader" -> <<"clip_name1", "clip_name2", "type">>
      [] class = "LoraLoader" -> <<"lora_name", "strength_model">>
      [] OTHER -> <<>>

\* The inputs that name widget values: those with a widget and without a link.
Named(slots) == Names(SelectSeq(slots, LAMBDA s : ~is_link(s.value) /\ s.widget))

WidgetKey(n, k) ==
    IF k <= Len(Named(n.slots)) THEN Named(n.slots)[k]
    ELSE IF k <= Len(WIDGET_NAMES(n.class)) THEN WIDGET_NAMES(n.class)[k] ELSE "widget"

Api(n) ==
    LET linked == SelectSeq(n.slots, LAMBDA s : is_link(s.value))
        links == [i \in DOMAIN linked |-> [name |-> linked[i].name, value |-> linked[i].value]]
        values == [k \in DOMAIN n.widgets |->
                     [name |-> WidgetKey(n, k), value |-> n.widgets[k]]]
    IN  [id |-> n.id, class |-> n.class,
         inputs |-> links \o SelectSeq(values, LAMBDA v : ~Has(links, v.name))]

ui_graph_to_api(nodes) == [i \in DOMAIN nodes |-> Api(nodes[i])]

Graph(f) == IF f.fmt = "ui" THEN ui_graph_to_api(f.nodes) ELSE f.nodes

\* Every subgraph a file declares, and those the subgraphs declare.
RECURSIVE Declared(_, _)
Declared(defs, depth) ==
    IF depth > MAX_SUBGRAPH_DEPTH THEN {}
    ELSE UNION {{d.id} \cup Declared(d.defs, depth + 1) : d \in defs}

\* The classes a workflow needs: an instance of a subgraph is not one.
NodeTypes(f) == {n.class : n \in ToSet(f.nodes)} \ Declared(f.defs, 0)

MODEL_LOADER_INPUTS(class, name) ==
    CASE class = "DualCLIPLoader" /\ name \in {"clip_name1", "clip_name2"} -> "text_encoders"
      [] class = "LoraLoader" /\ name = "lora_name" -> "loras"
      [] OTHER -> "none"

guess_category(name, class) ==
    LET n == Hints(name)
        c == Hints(class)
    IN  IF "vae" \in n \cup c THEN "vae"
        ELSE IF "ckpt" \in n \/ "checkpoint" \in c THEN "checkpoints"
        ELSE IF "unet" \in n \cup c \/ "diffusion" \in n THEN "diffusion_models"
        ELSE IF "clip" \in n THEN "text_encoders"
        ELSE IF "control" \in n \cup c THEN "controlnet"
        ELSE IF "upscale" \in n \cup c THEN "upscale_models"
        ELSE IF "model" \in n THEN "checkpoints" ELSE "none"

\* What an input refers to: a loader's input by the table, any other text that
\* ends like a model file by its name.
Category(n, input) ==
    LET known == MODEL_LOADER_INPUTS(n.class, input.name)
    IN  CASE known # "none" -> known
          [] known = "none" /\ ~is_link(input.value) /\ input.value.text \in ModelFiles ->
                IF "lora" \in Hints(input.name) \cup Hints(n.class) THEN "loras"
                ELSE guess_category(input.name, n.class)
          [] OTHER -> "none"

collect_model_refs(g) ==
    UNION {{[node |-> n.id, category |-> Category(n, n.inputs[i]),
             ref |-> resolve_value(g, n.inputs[i].value, n.id, {}, 0).text] :
                i \in {k \in DOMAIN n.inputs : Category(n, n.inputs[k]) # "none"}} :
           n \in ToSet(g)}

-----------------------------------------------------------------------------
Init == file \in Files /\ summary = [at |-> "unread"]

\* analyze, summarize_graph
Read ==
    /\ summary.at = "unread"
    /\ summary' = [at |-> "read", types |-> NodeTypes(file),
                   prompts |-> summarize_graph(Graph(file)),
                   refs |-> {r \in collect_model_refs(Graph(file)) : r.ref # ""}]
    /\ UNCHANGED file

Next == Read

-----------------------------------------------------------------------------
\* What a conditioning is made of: the texts of the encoders it comes from, an
\* encoder's outputs apart, nothing of what was zeroed.
RECURSIVE Carries(_, _, _, _)
Carries(g, id, slot, seen) ==
    LET class == class_type(g, id)
        inputs == node_inputs(g, id)
        via(n) == IF Linked(inputs, n)
                  THEN Carries(g, Value(inputs, n).node, Value(inputs, n).slot, seen \cup {id})
                  ELSE {}
        text(n) == IF Has(inputs, n)
                   THEN {resolve_value(g, Value(inputs, n), id, {}, 0).text} \ {""} ELSE {}
    IN  IF id \in seen \/ IsZeroOut(class) THEN {}
        ELSE CASE class = "CLIPTextEncode" -> text("text")
               [] class = "TextEncodeEdit" ->
                     IF slot = 1 THEN text("negative_prompt") ELSE text("prompt")
               [] class = "ControlNetApplyAdvanced" ->
                     via(IF slot = 1 THEN "negative" ELSE "positive")
               [] OTHER -> UNION {via(n) : n \in ToSet(Names(inputs))}

TheSampler(g) == Samplers(g)[1]
Conditions(g, name) ==
    LET v == Value(TheSampler(g).inputs, name) IN Carries(g, v.node, v.slot, {})

\* If the conditioning of the sampler carries a text, the prompt recorded is one
\* it carries; positive and negative texts are not taken for each other
\* (graph_utils.py summarize_graph, _text_from_conditioning).
PromptsCarried ==
    summary.at = "read" /\ Samplers(Graph(file)) # <<>> =>
        LET p == summary.prompts
            g == Graph(file)
        IN  /\ Conditions(g, "positive") # {} => p.pos.text \in Conditions(g, "positive")
            /\ Conditions(g, "negative") # {} /\ p.neg.origin # "same_as_positive" =>
                  p.neg.text \in Conditions(g, "negative")

\* A loader none of whose widgets was turned into an input has exactly the
\* models its widgets hold recorded, each under the category of its own widget,
\* and no subgraph of the file is taken for a class to install
\* (graph_utils.py ui_graph_to_api, workflow_graph.py analyze).
WidgetsRead ==
    summary.at = "read" /\ file.fmt = "ui" =>
        /\ \A n \in ToSet(file.nodes) :
              WIDGET_NAMES(n.class) # <<>> /\ ~(\E s \in ToSet(n.slots) : s.widget /\ is_link(s.value))
              => {[category |-> r.category, ref |-> r.ref] : r \in
                        {q \in summary.refs : q.node = n.id /\ q.ref \in ModelFiles}}
                 = {[category |-> MODEL_LOADER_INPUTS(n.class, WIDGET_NAMES(n.class)[k]),
                     ref |-> n.widgets[k].text] :
                        k \in {i \in DOMAIN n.widgets : n.widgets[i].text \in ModelFiles}}
        /\ \A d \in file.defs : \A e \in {d} \cup d.defs : e.id \notin summary.types
=============================================================================
