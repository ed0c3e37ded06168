---------------------------- MODULE TemplateText -----------------------------
(***************************************************************************)
(* TemplateText: TemplateEngineService.extractVariables                    *)
(* (apps/notiflo/src/app/templates/engine), a walk over the syntax tree    *)
(* Handlebars parses, next to what rendering reads.  Content, comments and *)
(* escaping, which read nothing, are left out; if stands for unless and    *)
(* each, over a list of at most one item, for with.                        *)
(***************************************************************************)
EXTENDS Sequences, SequencesExt

CONSTANT Names   \* top-level names a path may start with

(* kind: how the path is written: a, this.a, ../a or @index.               *)
Paths == [kind : {"name", "this", "parent"}, name : Names] \cup {[kind |-> "data", name |-> "index"]}

Mustache(path) == [type |-> "MustacheStatement", path |-> path]

Block(helper, param, program, inverse) ==
  [type |-> "BlockStatement", helper |-> helper, param |-> param,
   program |-> program, inverse |-> inverse]

Leaves == {<<Mustache(path)>> : path \in Paths} \cup {<<>>}

Params == {path \in Paths : path.kind # "data"}

Blocks(programs) ==
  {<<Block(helper, param, program, inverse)>> :
     helper \in {"if", "each"}, param \in Params, program \in programs, inverse \in Leaves}

Texts == Blocks(Leaves \cup Blocks(Leaves))

VARIABLE text

TextInit == text \in Texts

-----------------------------------------------------------------------------
(* extractPathFromExpression: this, this.x and @x are passed over.         *)
ExtractedPath(path) == IF path.kind \in {"this", "data"} THEN {} ELSE {path}

(* walkAst, over a program's statements.                                   *)
RECURSIVE ExtractedNoElse(_)   \* mutant: the inverse is not walked
ExtractedNoElse(program) ==
  UNION {IF node.type = "MustacheStatement" THEN ExtractedPath(node.path)
         ELSE ExtractedPath(node.param) \cup ExtractedNoElse(node.program) : node \in ToSet(program)}

RECURSIVE ExtractedFrom(_)
ExtractedFrom(program) ==
  UNION {IF node.type = "MustacheStatement" THEN ExtractedPath(node.path)
         ELSE ExtractedPath(node.param) \cup ExtractedFrom(node.program) \cup ExtractedFrom(node.inverse)
         : node \in ToSet(program)}

-----------------------------------------------------------------------------
(***************************************************************************)
(* Rendering, by Handlebars.  A value is missing, an atom or a list of one *)
(* item; the stack holds the contexts, the innermost first.                *)
(***************************************************************************)
Items == [Names -> {"missing", "atom"}]
Variables == [Names -> {[is |-> "missing"], [is |-> "atom"]} \cup [is : {"list"}, item : Items]]

ItemContext(item) == [name \in Names |-> [is |-> item[name]]]

ValueOf(path, stack) ==
  CASE path.kind = "data" -> [is |-> IF Len(stack) > 1 THEN "atom" ELSE "missing"]
    [] path.kind = "parent" -> IF Len(stack) > 1 THEN stack[2][path.name] ELSE [is |-> "missing"]
    [] OTHER -> stack[1][path.name]

RECURSIVE Rendered(_, _)
Rendered(program, stack) ==
  FlattenSeq([i \in DOMAIN program |->
    LET node == program[i]
    IN  IF node.type = "MustacheStatement" THEN <<ValueOf(node.path, stack)>>
        ELSE LET value == ValueOf(node.param, stack)
             IN  IF node.helper = "if" /\ value.is # "missing" THEN Rendered(node.program, stack)
                 ELSE IF node.helper = "each" /\ value.is = "list"
                 THEN Rendered(node.program, <<ItemContext(value.item)>> \o stack)
                 ELSE Rendered(node.inverse, stack)])

Renders(variables) == Rendered(text, <<variables>>)

(* Names the walk leaves out although rendering may read them: those       *)
(* reached by ../, and by this. outside of an each.                        *)
RECURSIVE Overlooked(_, _)
Overlooked(program, atRoot) ==
  UNION {LET path == IF node.type = "MustacheStatement" THEN node.path ELSE node.param
         IN  (IF path.kind = "parent" \/ (path.kind = "this" /\ atRoot) THEN {path.name} ELSE {})
             \cup IF node.type = "MustacheStatement" THEN {}
                  ELSE Overlooked(node.program, atRoot /\ node.helper = "if")
                       \cup Overlooked(node.inverse, atRoot)
         : node \in ToSet(program)}

(* template-engine.service.ts:75, "Extract variable names": a caller who   *)
(* provides the names extracted and nothing else gets the rendering that   *)
(* all the variables would give, but for names reached by ../ or, outside  *)
(* of a list, by this.                                                     *)
ExtractedAreEnough ==
  LET names == {path.name : path \in {p \in ExtractedFrom(text) : p.kind = "name"}}
               \cup Overlooked(text, TRUE)
  IN  \A variables \in Variables :
        Renders(variables)
          = Renders([name \in Names |-> IF name \in names THEN variables[name] ELSE [is |-> "missing"]])

=============================================================================
