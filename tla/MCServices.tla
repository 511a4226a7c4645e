----------------------------- MODULE MCServices ----------------------------
(***************************************************************************)
(* An instance of Services, one service to a behaviour; and of lists       *)
(* (Listing), of the ranking of a search (Ranking) and of the reading of   *)
(* workflow graphs (Graph), which only TLC's runs use.                     *)
(***************************************************************************)
EXTENDS Services, TLC

CONSTANTS
    a, b, m1, m2, n1,
    Id, KeyOf, ListHits, MaxLimit, Questions, Stored,
    Uid, ArmOf, PageSize

Kinds == {"model", "node", "workflow", "output"}
Own == [k \in Kinds |-> k]
Others == {"upgrade", "launcher", "release", "plans", "agents", "lists", "storage",
    "thumbs", "graph", "config", "online", "updates", "registry", "catalogue", "albums",
    "ranking"}

\* One service at a time, and one row at a time.
Each == {{"rows", r} : r \in Kinds} \cup {{x} : x \in Others}

\* Two inputs that name one file, and a node package.
Refs == [d \in {m1, m2, n1} |-> IF d = n1 THEN "repo" ELSE "file"]
Categories == [d \in {m1, m2, n1} |->
    CASE d = n1 -> "custom_nodes" [] d = m1 -> "checkpoints" [] OTHER -> "loras"]
Needed == [w \in {"w1", "w2"} |-> IF w = "w1" THEN {m1, m2, n1} ELSE {n1}]

\* Three rows, two of them equal in the sorted column.
Queries == {q \in [kind : {"model", "workflow", "node_package", "node_class", "output", "call"},
                     missing : {"hide", "show", "only"}, folders : {{}, {"a"}},
                     untagged : BOOLEAN, search : BOOLEAN, sort : {"key", "-key", "relevance"},
                     limit : {0, 2, 3}, tool : BOOLEAN] :
                /\ q.limit = 0 \/ q.tool
                /\ q.missing = "only" => q.sort = "key"
                /\ q.untagged <=> q.folders # {}}
Libraries ==
    [1..3 -> [missing : BOOLEAN, folder : {"a"}, tagged : {FALSE}]] \cup
    {[i \in 1..3 |-> [missing |-> FALSE, folder |-> IF i = 2 THEN "b" ELSE "a", tagged |-> i = 1]]}

\* Three models of one name, one of them larger and in another root, and an output.
Stock == {"m1", "m2", "m3", "o1"}
Facts ==
    [x \in Stock |->
        [kind |-> IF x = "o1" THEN "output" ELSE "model",
         size |-> IF x = "m3" THEN 8192 ELSE 64, age |-> IF x = "m1" THEN 180 ELSE 0,
         uses |-> IF x = "m2" THEN 1 ELSE 0, name |-> IF x = "m3" THEN "n2" ELSE "n1",
         root |-> IF x = "m2" THEN 2 ELSE 1, published |-> x = "m3", stem |-> "s",
         version |-> CASE x = "m1" -> 1 [] x = "m2" -> 2 [] OTHER -> 0,
         favorite |-> FALSE, rating |-> IF x = "m2" THEN 3 ELSE 0, source |-> "gone",
         media |-> "other", integrity |-> IF x = "m3" THEN "bad" ELSE "ok"]]
Shelves == {[x \in Stock |-> IF x = "o1" THEN [holds |-> "x", hashed |-> FALSE] ELSE f[x]] :
               f \in [Stock \ {"o1"} -> [holds : {"x", "y"}, hashed : BOOLEAN]]}

\* A parent of three directories: the one with a usual name has no sources, the
\* install is the second that is listed.
Directories == {"drive", "other", "comfy", "far"}
Usual(d) == IF d = "drive" THEN <<"far">> ELSE <<>>
Listed(d) == IF d = "drive" THEN <<"other", "comfy", "far">> ELSE <<>>
Installs == {[d \in Directories |->
    CASE d = "drive" -> "other" [] d = "comfy" -> "full" [] OTHER -> "data"]}
Wishes == {[do |-> "add", kind |-> "extra_outputs", folder |-> "f"],
          [do |-> "add", kind |-> "extra_models", folder |-> "f"],
          [do |-> "remove", id |-> 2], [do |-> "trash", id |-> 2],
          [do |-> "complete", typed |-> "drive"], [do |-> "scan"]}

Arms == {<<1, 2, 3>>, <<3, 2, 1>>, <<2, 1>>, <<3>>, <<2, 3>>}

ThreeIds == 1..3
KeysOf == <<1, 1, 2>>
HitsOf == <<3, 1>>

-----------------------------------------------------------------------------
\* A graph whose two prompts come through encoders, a zeroed conditioning and a
\* ControlNet in every combination.
Text(t) == [is |-> "text", text |-> t]
Link(n, s) == [is |-> "link", node |-> n, slot |-> s]
Input(n, v) == [name |-> n, value |-> v]
Step(i, c, ins) == [id |-> i, class |-> c, inputs |-> ins]
Conditionings == {Link(1, 0), Link(2, 0), Link(4, 0), Link(6, 0), Link(6, 1)}
Prompts ==
    {[fmt |-> "api", defs |-> {}, nodes |->
        <<Step(1, "CLIPTextEncode", <<Input("text", Text("p")), Input("clip", Link(8, 1))>>),
          Step(2, "CLIPTextEncode", <<Input("text", t)>>),
          Step(3, "PrimitiveString", <<Input("value", Text("n"))>>),
          Step(4, "ConditioningZeroOut", <<Input("conditioning", Link(1, 0))>>),
          Step(5, "ControlNetApplyAdvanced",
               <<Input("positive", x), Input("negative", y), Input("strength", Text("1"))>>),
          Step(6, "TextEncodeEdit", <<Input("prompt", Text("q"))>> \o d),
          Step(7, "Reroute", <<Input("any", Link(7, 0))>>),
          Step(9, "KSampler", <<Input("positive", p), Input("negative", n)>>)>>] :
        t \in {Text("n"), Text(""), Link(3, 0), Link(7, 0)},
        x \in Conditionings, y \in Conditionings,
        d \in {<<>>, <<Input("negative_prompt", Text(""))>>, <<Input("negative_prompt", Text("m"))>>},
        p \in Conditionings \cup {Link(5, 0)}, n \in Conditionings \cup {Link(5, 1)}}

\* Files of the user interface: loaders with and without named widgets, a subgraph
\* in a subgraph.
Widget(n, v) == [name |-> n, value |-> v, widget |-> TRUE]
Slot(n, v) == [name |-> n, value |-> v, widget |-> FALSE]
Box(i, c, slots, widgets) == [id |-> i, class |-> c, slots |-> slots, widgets |-> widgets]
Free == Text("free")
Interfaces ==
    {[fmt |-> "ui", defs |-> {[id |-> "g1", defs |-> {[id |-> "g2", defs |-> {}]}]},
      nodes |-> <<Box(1, "DualCLIPLoader", sl, <<Text("a.pt"), Text(x), Text("flux")>>),
                  Box(2, "LoraLoader", ls, <<Text("l.pt"), Text("1")>>),
                  Box(3, c, <<>>, <<Text("v.pt")>>), Box(4, "g2", <<>>, <<>>)>>] :
        sl \in {<<>>, <<Widget("clip_name1", Free)>>,
                <<Widget("clip_name1", Free), Widget("clip_name2", Free), Widget("type", Free)>>,
                <<Widget("clip_name1", Link(3, 0)), Widget("clip_name2", Free)>>},
        x \in {"b.pt", "a.pt", "none"},
        ls \in {<<>>, <<Slot("model", Link(1, 0)), Widget("lora_name", Free)>>},
        c \in {"VAEX", "g1", "Foo"}}
Purposes(n) ==
    CASE n = "VAEX" -> {"vae"} [] n \in {"clip_name1", "clip_name2", "DualCLIPLoader"} -> {"clip"}
      [] n \in {"LoraLoader", "lora_name"} -> {"lora"} [] OTHER -> {}
Negative(x, y) == x = "m"

VARIABLES library, reader, changes
VARIABLES arms, title, passes, pages
VARIABLES flow, summary

listsVars == <<library, reader, changes>>
rankingVars == <<arms, title, passes, pages>>
graphVars == <<flow, summary>>
readings == <<listsVars, rankingVars, graphVars>>

Lists == INSTANCE Listing WITH Asked <- Questions, Hits <- ListHits
Ranks == INSTANCE Ranking
Flows == INSTANCE Graph WITH
    file <- flow, Files <- Prompts \cup Interfaces, ModelFiles <- {"a.pt", "b.pt", "l.pt", "v.pt"},
    Hints <- Purposes, ReadsNegative <- Negative, MAX_DEPTH <- 12, MAX_SUBGRAPH_DEPTH <- 8

MCInit ==
    /\ Init
    /\ IF "lists" \in focus THEN Lists!Init ELSE library = "rests" /\ reader = "rests" /\ changes = "rests"
    /\ IF "ranking" \in focus THEN Ranks!Init
       ELSE arms = "rests" /\ title = "rests" /\ passes = "rests" /\ pages = "rests"
    /\ IF "graph" \in focus THEN Flows!Init ELSE flow = "rests" /\ summary = "rests"

MCNext ==
    \/ Next /\ UNCHANGED readings
    \/ "lists" \in focus /\ Lists!Next /\ UNCHANGED <<focus, services, rankingVars, graphVars>>
    \/ "ranking" \in focus /\ Ranks!Next /\ UNCHANGED <<focus, services, listsVars, graphVars>>
    \/ "graph" \in focus /\ Flows!Next /\ UNCHANGED <<focus, services, listsVars, rankingVars>>

MCSpec == MCInit /\ [][MCNext]_<<focus, services, readings>>

\* Not followed further: ComfyUI's processes that nothing can see, and a folder that
\* something else has changed.
Followed ==
    /\ "launcher" \in focus => ~unseen
    /\ "release" \in focus => ~mixed

\* Who follows a list to its end has every row that was there all along, once and in order,
\* and a search by name first and as its two arms agree (queries/__init__.py, list_*,
\* hybrid.py).
ListsComplete ==
    /\ "lists" \in focus => Lists!PagesComplete
    /\ "ranking" \in focus => Ranks!RankingSound

\* The prompts and models recorded of a graph are those its sampler is given and its
\* widgets hold (graph_utils.py, workflow_graph.py).
GraphSound == "graph" \in focus => Flows!PromptsCarried /\ Flows!WidgetsRead
=============================================================================
