---- MODULE Surface ----
(***************************************************************************)
(* The contract surface of a source tree, the differences between two, and *)
(* the changelog entries they need (scripts/contract_surface.py).          *)
(*                                                                         *)
(* A tree is a function from modules (sequences of names) to               *)
(*   [package, isPackage, body], body a sequence of statements:            *)
(*   [form |-> "class", name, bases, decorators, marker, doc, body]        *)
(*   [form |-> "def", name, decorators, marker, doc, posonly, args,        *)
(*            vararg, kwonly, kwarg, returns]                              *)
(*   [form |-> "var", name, role, annotation, default, kwOnly] in a class  *)
(*   [form |-> "assign", name, value] in an enum                           *)
(*   [form |-> "alias", name, value], [form |-> "import", name, source]    *)
(* Bases and decorators are sets of last names ("frozen" and "kw_only" the *)
(* options of @dataclass); an annotation is the set of its union's         *)
(* members, {} when there is none; a doc is [paragraph, stated].           *)
(***************************************************************************)
EXTENDS Changelog

CONSTANTS Private,       \* the names that start with `_`, __init__ and __call__ excepted
          Expressions,   \* the defaults that are no literal
          OPEN_VOCABULARY

NoDefault == "-"
NoMember == ""
NoMarker == "no sentence"
NoDoc == [paragraph |-> NoMarker, stated |-> FALSE]

BREAKING == "Breaking for driver authors"
CONSUMER == "Consumer action"
DEPRECATED == "Deprecated"
CHANGED == "Changed"
ANY_BREAK == {BREAKING, CONSUMER}
ANNOUNCED == ANY_BREAK \cup {DEPRECATED}
UNKNOWN == ANNOUNCED \cup {CHANGED}

ENUM_BASES == {"Enum", "StrEnum", "IntEnum", "Flag", "IntFlag", "ReprEnum"}
TOP_TYPES == {"Any", "object"}
RECORDS == {"dataclass", "namedtuple"}

----------------------------------------------------------------------------
\* One class or function.

Params(fn, dropFirst) ==
    LET Of(args, kind) == [i \in DOMAIN args |->
            [name |-> args[i].name, kind |-> kind, annotation |-> args[i].annotation,
             default |-> args[i].default]]
        positional == Of(fn.posonly, "positional-only") \o Of(fn.args, "positional")
    IN (IF dropFirst /\ positional # <<>> THEN Tail(positional) ELSE positional)
         \o Of(fn.vararg, "var-positional") \o Of(fn.kwonly, "keyword-only")
         \o Of(fn.kwarg, "var-keyword")

Function(fn, inClass, line) ==
    LET kind == IF ~inClass THEN "function"
                ELSE IF fn.decorators \cap {"property", "cached_property"} # {}
                THEN "property" ELSE "method"
    IN [ kind |-> kind, line |-> line,
         params |-> IF kind = "property" THEN <<>>
                    ELSE Params(fn, inClass /\ "staticmethod" \notin fn.decorators),
         returns |-> fn.returns, deprecated |-> "deprecated" \in fn.decorators,
         marker |-> fn.marker, doc |-> fn.doc ]

Attribute(stmt, line) ==
    [ kind |-> "attribute", line |-> line, params |-> <<>>, returns |-> stmt.annotation,
      deprecated |-> FALSE, marker |-> NoMarker, doc |-> NoDoc ]

ClassKind(node) ==
    IF "Protocol" \in node.bases THEN "protocol"
    ELSE IF node.bases \cap ENUM_BASES # {} THEN "enum"
    ELSE IF "NamedTuple" \in node.bases THEN "namedtuple"
    ELSE IF "dataclass" \in node.decorators THEN "dataclass" ELSE "class"

\* A later statement of the same name replaces an earlier one.
IsMember(kind, stmt) ==
    \/ /\ stmt.form = "def" /\ stmt.name \notin Private
       /\ stmt.decorators \cap {"setter", "deleter"} = {}
       /\ ~(stmt.name = "__init__" /\ kind \in RECORDS \cup {"protocol"})
    \/ /\ stmt.form = "var" /\ stmt.role = "field" /\ stmt.name \notin Private
       /\ kind \in {"protocol", "class"}
Members(kind, body) ==
    LET kept == SelectSeq(body, LAMBDA stmt : IsMember(kind, stmt))
        At(n) == Max({i \in DOMAIN kept : kept[i].name = n})
    IN [n \in {stmt.name : stmt \in ToSet(kept)} |->
           IF kept[At(n)].form = "def" THEN Function(kept[At(n)], TRUE, At(n))
           ELSE Attribute(kept[At(n)], At(n))]

\* Keyword-only by the decorator, by field(), or after a KW_ONLY marker.
Fields(node) ==
    LET vars == SelectSeq(node.body, LAMBDA s : s.form = "var" /\ s.role \in {"field", "KW_ONLY"})
        rest == "dataclass" \in node.decorators /\ "kw_only" \in node.decorators
        Of(i) == [ name |-> vars[i].name, annotation |-> vars[i].annotation,
                   default |-> vars[i].default,
                   kwOnly |-> \/ rest \/ vars[i].kwOnly
                              \/ \E j \in 1..i : vars[j].role = "KW_ONLY" ]
    IN IF ClassKind(node) \notin RECORDS THEN <<>>
       ELSE SelectSeq([i \in DOMAIN vars |-> [role |-> vars[i].role] @@ Of(i)],
                      LAMBDA f : f.role = "field" /\ f.name \notin Private)

EnumMembers(node) ==
    LET own == {i \in DOMAIN node.body : node.body[i].form = "assign"
                                         /\ node.body[i].name \notin Private}
    IN IF ClassKind(node) # "enum" THEN << >>
       ELSE [n \in {node.body[i].name : i \in own} |->
                node.body[Max({i \in own : node.body[i].name = n})].value]

Empty == [ package |-> "", module |-> <<>>, name |-> "", paths |-> {}, kind |-> "class",
           bases |-> {}, frozen |-> FALSE, deprecated |-> FALSE, marker |-> NoMarker,
           doc |-> NoDoc, members |-> << >>, fields |-> <<>>, enum |-> << >>, value |-> {},
           function |-> <<>> ]

Class(node) ==
    [ Empty EXCEPT
      !.kind = ClassKind(node), !.bases = node.bases,
      !.frozen = {"dataclass", "frozen"} \subseteq node.decorators,
      !.deprecated = "deprecated" \in node.decorators, !.marker = node.marker, !.doc = node.doc,
      !.members = Members(ClassKind(node), node.body), !.fields = Fields(node),
      !.enum = EnumMembers(node) ]

----------------------------------------------------------------------------
\* The surface: a function from <<module, name>> to symbols.

ModulePublic(module) == \A i \in DOMAIN module : module[i] \notin Private

SymbolOf(stmt) ==
    IF stmt.form = "class" THEN Class(stmt)
    ELSE IF stmt.form = "alias" THEN [Empty EXCEPT !.kind = "alias", !.value = stmt.value]
    ELSE LET fn == Function(stmt, FALSE, 0)
         IN [Empty EXCEPT !.kind = "function", !.deprecated = fn.deprecated,
                          !.marker = fn.marker, !.doc = fn.doc, !.function = <<fn>>]

Listed(package, stmt) ==
    /\ stmt.name \notin Private
    /\ stmt.form \in {"class", "alias"} \/ (stmt.form = "def" /\ package = "testoperations")

\* What a module puts on the surface, the last statement of a name.
Listings(content) == SelectSeq(content.body, LAMBDA s : Listed(content.package, s))
Defines(content) == {s.name : s \in ToSet(Listings(content))}
Newest(content, name) ==
    LET all == Listings(content) IN all[Max({i \in DOMAIN all : all[i].name = name})]

\* `from source import name` of a package module, the last one of a name; the
\* relative form is resolved when the tree is written.
Reexports(tree, module) ==
    LET found == SelectSeq(tree[module].body, LAMBDA s : s.form = "import")
        From(n) == found[Max({i \in DOMAIN found : found[i].name = n})].source
    IN IF ~tree[module].isPackage THEN << >>
       ELSE [n \in {s.name : s \in ToSet(found)} |-> From(n)]

\* Where a re-exported name leads after at most nine hops.
Target(tree, defined, module, name) ==
    LET hop[k \in 0..9] ==
            IF k = 0 THEN module
            ELSE IF <<hop[k - 1], name>> \in defined THEN hop[k - 1]
            ELSE IF hop[k - 1] \in DOMAIN tree /\ name \in DOMAIN Reexports(tree, hop[k - 1])
            THEN Reexports(tree, hop[k - 1])[name] ELSE <<>>
    IN hop[9]

ReadSurface(tree) ==
    LET public == {m \in DOMAIN tree : ModulePublic(m)}
        defined == UNION {{<<m, n>> : n \in Defines(tree[m])} : m \in public}
        Paths(k) == {k[1]} \cup {m \in public :
            k[2] \in DOMAIN Reexports(tree, m) /\ Target(tree, defined, m, k[2]) = k[1]}
    IN [k \in defined |->
           [ SymbolOf(Newest(tree[k[1]], k[2])) EXCEPT
             !.package = tree[k[1]].package, !.module = k[1], !.name = k[2], !.paths = Paths(k) ]]

\* The path an entry would use: the shortest public module below the root.
DisplayPath(sym) ==
    LET below == {p \in sym.paths : Len(p) > 1}
        from == IF below = {} THEN sym.paths ELSE below
    IN CHOOSE p \in from : \A q \in from : Len(p) <= Len(q)

----------------------------------------------------------------------------
\* Annotations. A missing one reads as Any.

UnionOf(annotation) == IF annotation = {} THEN {"Any"} ELSE annotation

Direction(old, new) ==
    LET a == UnionOf(old)
        b == UnionOf(new)
        aTop == a \cap TOP_TYPES # {}
        bTop == b \cap TOP_TYPES # {}
    IN IF a = b THEN "equal"
       ELSE IF aTop # bTop THEN IF aTop THEN "narrowed" ELSE "widened"
       ELSE IF a \subseteq b THEN "widened"
       ELSE IF b \subseteq a THEN "narrowed" ELSE "unknown"

EnumOrRaw(annotation, enums) == annotation \cap enums # {} /\ annotation \cap {"str", "int"} # {}

----------------------------------------------------------------------------
\* Changes: [cls, package, path, name, member, param, needs]. `needs` holds
\* the changelog subsections one of which must name the change.

Needs_CallersOnly(cls, owner, direction, extra) ==
    IF cls \in {"removed-member", "renamed?", "param-removed", "param-added-required"}
    THEN ANY_BREAK
    ELSE IF cls = "param-kind-changed" THEN UNKNOWN
    ELSE IF cls = "default-changed" /\ extra # "default added" THEN ANY_BREAK
    ELSE IF cls = "deprecated-marker-added" THEN {DEPRECATED} ELSE {}

Needs(cls, owner, direction, extra) ==
    LET IfProtocol == IF owner = "protocol" THEN {BREAKING} ELSE {}
    IN CASE cls = "param-kind-changed" /\ extra = "symbol kind" -> UNKNOWN
         [] cls \in {"removed-member", "renamed?", "param-removed", "field-removed",
                     "field-reordered", "enum-member-removed", "enum-value-changed",
                     "param-added-required"} -> ANY_BREAK
         [] cls = "param-kind-changed" /\ extra # "symbol kind" -> ANY_BREAK
         [] cls \in {"added-member", "param-added-keyword-only", "param-added-defaulted"} ->
                IfProtocol
         [] cls = "default-changed" ->
                IF extra = "default added" THEN IfProtocol
                ELSE IF extra = "not a literal" THEN UNKNOWN ELSE ANY_BREAK
         [] cls = "param-annotation-changed" ->
                IF direction = "unknown" THEN UNKNOWN
                ELSE IF direction # "narrowed" THEN {}
                ELSE IF extra = "from Any" /\ owner # "protocol" THEN UNKNOWN ELSE ANNOUNCED
         [] cls = "return-annotation-changed" ->
                IF direction = "unknown" THEN UNKNOWN
                ELSE IF direction = "widened" \/ owner = "protocol" THEN ANNOUNCED ELSE {}
         [] cls = "field-annotation-changed" ->
                IF direction = "unknown" THEN UNKNOWN ELSE ANNOUNCED
         [] cls = "field-added" -> IF extra = "required" THEN ANY_BREAK ELSE {}
         [] cls = "model-frozen-changed" -> IF extra = "frozen" THEN ANY_BREAK ELSE {}
         [] cls = "alias-changed" -> UNKNOWN
         [] cls = "deprecated-marker-added" -> {DEPRECATED}
         [] OTHER -> {}

Change(cls, sym, member, param, owner, direction, extra) ==
    [ cls |-> cls, package |-> sym.package, path |-> DisplayPath(sym), name |-> sym.name,
      member |-> member, param |-> param, needs |-> Needs(cls, owner, direction, extra) ]

FieldExtra(old, new) ==
    IF old = NoDefault THEN "default added"
    ELSE IF {old, new} \cap Expressions = {} THEN "" ELSE "not a literal"
DefaultExtra(old, new) ==
    IF old # NoDefault /\ new = NoDefault THEN "default removed" ELSE FieldExtra(old, new)

Named(seq, n) == CHOOSE p \in ToSet(seq) : p.name = n
Names(seq) == {p.name : p \in ToSet(seq)}
\* The position of a name among the elements at some places; 0 for none.
PositionOf(seq, places, n) ==
    LET at == {i \in places : seq[i].name = n}
    IN IF at = {} THEN 0 ELSE Cardinality({j \in places : \A i \in at : j <= i})
Positional(params) == {i \in DOMAIN params : params[i].kind \in {"positional-only", "positional"}}

AddedParam(p) ==
    IF p.kind \in {"var-positional", "var-keyword"} THEN "param-added-defaulted"
    ELSE IF p.default = NoDefault THEN "param-added-required"
    ELSE IF p.kind = "keyword-only" THEN "param-added-keyword-only" ELSE "param-added-defaulted"

DiffParams(sym, old, new, owner, member) ==
    LET C(cls, param, direction, extra) ==
            Change(cls, sym, member, param, owner, direction, extra)
        Moved(n) == LET i == PositionOf(old.params, Positional(old.params), n)
                        j == PositionOf(new.params, Positional(new.params), n)
                    IN i > 0 /\ j > 0 /\ i # j
        Kept(p, q) ==
            (IF q.kind # p.kind \/ Moved(p.name) THEN {C("param-kind-changed", p.name, "", "")}
             ELSE {})
            \cup (LET d == Direction(q.annotation, p.annotation)
                      fromAny == UnionOf(q.annotation) \cap TOP_TYPES # {}
                  IN IF d = "equal" THEN {}
                     ELSE {C("param-annotation-changed", p.name, d,
                             IF fromAny THEN "from Any" ELSE "")})
            \cup (IF q.default = p.default THEN {}
                  ELSE {C("default-changed", p.name, "", DefaultExtra(q.default, p.default))})
        d == Direction(old.returns, new.returns)
    IN UNION {
         {C("param-removed", n, "", "") : n \in Names(old.params) \ Names(new.params)},
         UNION {IF p.name \in Names(old.params) THEN Kept(p, Named(old.params, p.name))
                ELSE {C(AddedParam(p), p.name, "", "")} : p \in ToSet(new.params)},
         IF d = "equal" THEN {} ELSE {C("return-annotation-changed", NoMember, d, "")},
         IF new.deprecated /\ ~old.deprecated
         THEN {C("deprecated-marker-added", NoMember, "", "")} ELSE {} }

OwnerKind(sym) == IF sym.kind = "protocol" THEN "protocol" ELSE "callable"
SignatureText(m) ==
    << [i \in DOMAIN m.params |-> <<m.params[i].name, m.params[i].annotation>>], m.returns >>

\* A removed member and the only added one with its signature are a rename; of
\* two removed members with one such twin, the first has it.
RenamedTo(base, head, n) ==
    LET removed == DOMAIN base.members \ DOMAIN head.members
        Twins(r) == {a \in DOMAIN head.members \ DOMAIN base.members :
                        SignatureText(head.members[a]) = SignatureText(base.members[r])}
        First(r) == \A q \in removed : /\ Twins(q) = Twins(r)
                                       => base.members[r].line <= base.members[q].line
    IN IF Cardinality(Twins(n)) = 1 /\ First(n) THEN Twins(n) ELSE {}

DiffMembers(base, head) ==
    LET owner == OwnerKind(head)
        C(cls, member, direction) == Change(cls, head, member, NoMember, owner, direction, "")
        removed == DOMAIN base.members \ DOMAIN head.members
        added == DOMAIN head.members \ DOMAIN base.members
        renamed == {n \in removed : RenamedTo(base, head, n) # {}}
        Both(n, old, new) ==
            (IF old.kind # new.kind THEN {C("param-kind-changed", n, "")} ELSE {})
            \cup (IF "attribute" \in {old.kind, new.kind}
                  THEN LET d == Direction(old.returns, new.returns)
                       IN IF d = "equal" THEN {} ELSE {C("return-annotation-changed", n, d)}
                  ELSE DiffParams(head, old, new, owner, n))
    IN UNION {
         {C("renamed?", n, "") : n \in renamed},
         {C("removed-member", n, "") : n \in removed \ renamed},
         {C("added-member", n, "") : n \in added \ UNION {RenamedTo(base, head, r) : r \in renamed}},
         UNION {Both(n, base.members[n], head.members[n]) :
                   n \in DOMAIN base.members \cap DOMAIN head.members} }

ByPosition(fields) == {i \in DOMAIN fields : ~fields[i].kwOnly}
DiffFields(base, head) ==
    LET C(cls, f, direction, extra) ==
            Change(cls, head, f.name, NoMember, "callable", direction, extra)
        Reordered(n) == LET i == PositionOf(base.fields, ByPosition(base.fields), n)
                        IN i > 0 /\ i # PositionOf(head.fields, ByPosition(head.fields), n)
        Kept(f, g) ==
            (IF Reordered(f.name) THEN {C("field-reordered", f, "", "")} ELSE {})
            \cup (LET d == Direction(g.annotation, f.annotation)
                  IN IF d = "equal" THEN {} ELSE {C("field-annotation-changed", f, d, "")})
            \cup (IF g.default = f.default THEN {}
                  ELSE {C("default-changed", f, "", FieldExtra(g.default, f.default))})
    IN {C("field-removed", f, "", "") :
           f \in {g \in ToSet(base.fields) : g.name \notin Names(head.fields)}}
       \cup UNION {IF f.name \in Names(base.fields) THEN Kept(f, Named(base.fields, f.name))
                   ELSE {C("field-added", f, "", IF f.default = NoDefault THEN "required" ELSE "")}
                   : f \in ToSet(head.fields)}

DiffEnum(base, head) ==
    LET C(cls, n) == Change(cls, head, n, NoMember, "callable", "", "")
        kept == DOMAIN base.enum \cap DOMAIN head.enum
    IN UNION { {C("enum-member-removed", n) : n \in DOMAIN base.enum \ kept},
               {C("enum-member-added", n) : n \in DOMAIN head.enum \ kept},
               {C("enum-value-changed", n) : n \in {m \in kept : base.enum[m] # head.enum[m]}} }

DiffSymbol(base, head) ==
    LET C(cls, owner, direction, extra) ==
            Change(cls, head, NoMember, NoMember, owner, direction, extra)
        owner == OwnerKind(head)
        d == Direction(base.value, head.value)
    IN IF head.kind = "alias" /\ base.kind = "alias"
       THEN IF d = "equal" THEN {} ELSE {C("alias-changed", "callable", d, "")}
       ELSE IF head.kind = "function" /\ base.kind = "function"
       THEN DiffParams(head, base.function[1], head.function[1], "callable", NoMember)
       ELSE UNION {
         IF base.kind = head.kind THEN {}
         ELSE {C("param-kind-changed", "callable", "", "symbol kind")},
         IF base.frozen = head.frozen THEN {}
         ELSE {C("model-frozen-changed", "callable", "",
                 IF head.frozen THEN "frozen" ELSE "unfrozen")},
         IF head.deprecated /\ ~base.deprecated
         THEN {C("deprecated-marker-added", "callable", "", "")} ELSE {},
         IF {head.kind, base.kind} # {"protocol"} THEN {}
         ELSE {C("added-member", owner, "", b) : b \in head.bases \ base.bases}
                \cup {C("removed-member", owner, "", b) : b \in base.bases \ head.bases},
         DiffMembers(base, head), DiffFields(base, head), DiffEnum(base, head) }

Diff(base, head) ==
    LET C(cls, sym) == Change(cls, sym, NoMember, NoMember, "callable", "", "")
    IN UNION {
         {C("removed-member", base[k]) : k \in DOMAIN base \ DOMAIN head},
         {C("added-member", head[k]) : k \in DOMAIN head \ DOMAIN base},
         UNION {DiffSymbol(base[k], head[k]) : k \in DOMAIN base \cap DOMAIN head} }

\* A new protocol member takes the bare enum.
EnumParamProblems(base, head) ==
    LET enums == {head[k].name : k \in {j \in DOMAIN head : head[j].kind = "enum"}}
        IsNew(k, n) == ~(k \in DOMAIN base /\ base[k].kind = "protocol"
                         /\ n \in DOMAIN base[k].members)
    IN UNION {UNION {
           {<<DisplayPath(head[k]), head[k].name, n, p.name>> :
               p \in {q \in ToSet(head[k].members[n].params) : EnumOrRaw(q.annotation, enums)}}
           : n \in {m \in DOMAIN head[k].members : IsNew(k, m)}}
         : k \in {j \in DOMAIN head : head[j].kind = "protocol"}} \ OPEN_VOCABULARY

----------------------------------------------------------------------------
\* The changelog. An item is a sequence of code spans (Changelog). A module is
\* named by the `module:symbol` form alone; a bare module path is so many names.

Modules(item) == {s.module : s \in {t \in ToSet(item) : t.chain # <<>>}} \ {<<>>}
Tokens(item) ==
    UNION {ToSet(IF s.chain = <<>> THEN s.module ELSE s.chain) \cup s.params : s \in ToSet(item)}

NamesChange(item, change, aliases, needModule) ==
    /\ needModule => Modules(item) \cap aliases # {}
    /\ change.name \in Tokens(item)
    /\ \/ change.member = NoMember
       \/ change.member \in Tokens(item)
       \/ change.param # NoMember /\ change.param \in Tokens(item)

Whole(change) == [change EXCEPT !.member = NoMember, !.param = NoMember]

\* The symbol of a change in the head: the one of that name at that path.
Defining(change, head) ==
    {k \in DOMAIN head : head[k].name = change.name /\ change.path \in head[k].paths}

DeprecatedWithRow(sym, change, register) ==
    LET about == IF sym.deprecated THEN Whole(change) ELSE change
    IN /\ \/ sym.deprecated
          \/ /\ change.member \in DOMAIN sym.members
             /\ sym.members[change.member].deprecated
       /\ \E r \in ToSet(register) :
             r.package = change.package /\ NamesChange(r.item, about, {}, FALSE)

\* The changes that no entry of [Unreleased] names under a needed subsection.
Uncovered(changes, changelog, register, head) ==
    LET entries == ToSet(UnreleasedEntries(changelog))
        Covered(change) ==
            LET at == Defining(change, head)
                aliases == IF at = {} THEN {change.path} ELSE UNION {head[k].paths : k \in at}
                row == \E k \in at : DeprecatedWithRow(head[k], change, register)
                classWide == row /\ \E k \in at : head[k].deprecated
                needs == IF row THEN change.needs \cup {DEPRECATED} ELSE change.needs
            IN \E e \in entries :
                  /\ ~Placeholder(e) /\ e.package = change.package /\ e.subsection \in needs
                  /\ \/ NamesChange(e.subject, change, aliases, TRUE)
                     \/ /\ classWide /\ e.subsection = DEPRECATED
                        /\ NamesChange(e.subject, Whole(change), aliases, TRUE)
    IN {c \in changes : c.needs # {} /\ ~Covered(c)}

CheckChangelog(base, head, changelog, register) ==
    IF Unreleased(changelog) = 0 THEN {"no [Unreleased] heading"}
    ELSE Problem(Uncovered(Diff(base, head), changelog, register, head) # {}, "unnamed change")

----------------------------------------------------------------------------
\* Every copy of a deprecation agrees (scripts/deprecation_parity.py). A site
\* is <<symbol, member>>, the member NoMember for the class or function itself.

Sites(surface) ==
    UNION {{<<k, n>> : n \in {m \in DOMAIN surface[k].members : surface[k].members[m].deprecated}}
             \cup (IF surface[k].deprecated THEN {<<k, NoMember>>} ELSE {}) : k \in DOMAIN surface}

About(surface, site) ==
    IF site[2] = NoMember THEN surface[site[1]] ELSE surface[site[1]].members[site[2]]

RowNamesSite(row, surface, site) ==
    LET sym == surface[site[1]]
    IN /\ row.package = sym.package
       /\ \E s \in ToSet(row.item) :
             IF site[2] = NoMember THEN row.kind = "class" /\ s.chain = <<sym.name>>
             ELSE Len(s.chain) > 1 /\ SubSeq(s.chain, 1, 2) = <<sym.name, site[2]>>

\* What a row's spans name, in their order; an enum or alias is its
\* replacement, not its subject.
Targets(row, surface) ==
    LET Of(s) == {k \in DOMAIN surface :
                    /\ surface[k].package = row.package
                    /\ surface[k].kind \notin {"enum", "alias"}
                    /\ s.chain # <<>> /\ surface[k].name = s.chain[1]}
        spans == SelectSeq(row.item, LAMBDA s : Of(s) # {})
        MemberOf(s, k) == IF Len(s.chain) > 1 /\ s.chain[2] \in DOMAIN surface[k].members
                          THEN s.chain[2] ELSE NoMember
    IN [i \in DOMAIN spans |-> LET k == CHOOSE j \in Of(spans[i]) : TRUE
                               IN <<k, MemberOf(spans[i], k)>>]

Stated(surface, site) ==
    \/ About(surface, site).doc.stated
    \/ /\ site[2] = NoMember
       /\ \E n \in DOMAIN surface[site[1]].members : surface[site[1]].members[n].doc.stated

ParityProblems(surface, register) ==
    LET rows == ToSet(register)
        SiteProblems(site) ==
            LET about == About(surface, site)
            IN (IF about.marker = NoMarker THEN {"no literal sentence"}
                ELSE IF about.doc.paragraph = NoMarker THEN {"no Deprecated paragraph"}
                ELSE Problem(about.doc.paragraph # about.marker, "sentence and paragraph differ"))
               \cup Problem(~\E r \in rows : RowNamesSite(r, surface, site), "no row")
        RowProblems(r) ==
            LET targets == Targets(r, surface)
                carries == /\ r.package = "testprotocols" /\ r.kind \in {"member", "class"}
                       /\ ~r.ofReturn
            IN IF targets = <<>> THEN {"names no symbol"}
               ELSE IF carries
               THEN Problem(~About(surface, targets[1]).deprecated, "carries no marker")
               ELSE Problem(~Stated(surface, targets[1]), "docstring does not state it")
    IN (UNION {SiteProblems(s) : s \in Sites(surface)}) \cup UNION {RowProblems(r) : r \in rows}
====
