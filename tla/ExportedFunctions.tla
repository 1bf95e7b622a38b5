--------------------------- MODULE ExportedFunctions ---------------------------
(* extractExportedFunctions: which functions of a source file the generated     *)
(* tests are written for, under which name, how they are imported and whose      *)
(* text is shown to the model. A file is its sequence of top-level statements;   *)
(* what loading it gives to an importer is the reference the answer is held to. *)
EXTENDS Naturals, Sequences, FiniteSets

CONSTANTS Names,           \* identifiers, strings other than Callable and Unread
          MaxStatements    \* bound: statements of a file

VARIABLES source,          \* the statements of the file
          extracted,       \* whether the file has been read
          signatures       \* the FunctionSignatures returned

extraction == <<source, extracted, signatures>>

(* An expression is an identifier; an arrow or function expression, bare or as  *)
(* an argument of a call (catchAsync(async (req, res) => ...)); or another one,  *)
(* which may well be a function too: catchAsync(handler), f.bind(this), and in   *)
(* an exported object a shorthand method, a getter or a quoted key.             *)

Callable == "callable"
Unread == "unread"
callableIn(expr) == expr = Callable

NamesAssumption == {Callable, Unread} \intersect Names = {} /\ MaxStatements \in Nat

\* (a statement of several declarators counts as one statement for each of them)
FunctionDeclarations(modifiers) == [kind : {"function"}, name : Names, modifiers : modifiers]
VariableStatements(modifiers) ==
    [kind : {"variable"}, name : Names, initializer : {Callable, Unread}, modifiers : modifiers]
\* export { right as name }, and export default right
ExportLists == [kind : {"list"}, name : Names, right : Names]
ExportAssignments == [kind : {"default"}, right : Names \union {Callable}]
PropertyAssignments == [kind : {"property"}, base : {"exports", "module.exports"}, name : Names,
                        right : Names \union {Callable, Unread}]
ModuleAssignments == [kind : {"module"}, right : Names \union {Callable}]
ObjectLiterals == UNION {[kind : {"object"}, properties : [keys -> Names \union {Callable, Unread}]] :
                            keys \in SUBSET Names}

EsModule == FunctionDeclarations({{}, {"export"}, {"export", "default"}})
            \union VariableStatements({{}, {"export"}}) \union ExportLists \union ExportAssignments
CommonJs == FunctionDeclarations({{}}) \union VariableStatements({{}})
            \union PropertyAssignments \union ModuleAssignments \union ObjectLiterals

Declares(s) == s.kind \in {"function", "variable"}

\* the identifiers a statement evaluates
Uses(s) == CASE s.kind \in {"property", "module", "default"} -> {s.right} \intersect Names
             [] s.kind = "object" -> {s.properties[n] : n \in DOMAIN s.properties} \intersect Names
             [] OTHER -> {}

ExportsByName(s, n) == /\ s.kind \in {"function", "variable", "list"} /\ s.name = n
                       /\ Declares(s) => s.modifiers = {"export"}
ExportsDefault(s) == s.kind = "default" \/ (s.kind = "function" /\ "default" \in s.modifiers)

\* it parses, and no const is read before its initialisation
Loads(src) ==
    /\ \A i, j \in DOMAIN src :
         /\ i < j /\ Declares(src[i]) /\ Declares(src[j]) => src[i].name # src[j].name
         /\ i < j /\ src[j].kind = "variable" => src[j].name \notin Uses(src[i])
         /\ i # j /\ src[i].kind = "list" => ~ExportsByName(src[j], src[i].name)
    /\ Cardinality({i \in DOMAIN src : ExportsDefault(src[i])}) <= 1

ExtractInit ==
    /\ \E language \in {EsModule, CommonJs}, n \in 0 .. MaxStatements :
         source \in {src \in [1 .. n -> language] : Loads(src)}
    /\ extracted = FALSE /\ signatures = {}

-----------------------------------------------------------------------------
(* The walk over the statements: a Map of local declarations, a Map from        *)
(* exported to local names, and the names exported as default. A function is    *)
(* known by the statement and the name it is written for.                       *)

Nothing == [n \in {} |-> n]
Put(map, entries) == [k \in DOMAIN map \union DOMAIN entries |->
                        IF k \in DOMAIN entries THEN entries[k] ELSE map[k]]

NothingFound == [locals |-> Nothing, exported |-> Nothing, defaults |-> {}]

Declare(found, names, i) == [found EXCEPT !.locals = Put(@, [n \in names |-> <<i, n>>])]
Export(found, entries) == [found EXCEPT !.exported = Put(@, entries)]
ExportItself(found, name) == Export(found, [n \in {name} |-> n])
Default(found, name) == [found EXCEPT !.defaults = @ \union {name}]

handleFunctionDeclaration(found, i) ==
    LET s == source[i]
        declared == Declare(found, {s.name}, i)
        exported == IF "export" \in s.modifiers THEN ExportItself(declared, s.name) ELSE declared
    IN IF {"export", "default"} \subseteq s.modifiers THEN Default(exported, s.name) ELSE exported

handleVariableStatement(found, i) ==
    LET s == source[i]
        declared == Declare(found, {s.name}, i)
    IN IF ~callableIn(s.initializer) THEN found
       ELSE IF "export" \in s.modifiers THEN ExportItself(declared, s.name) ELSE declared

ExportIfDeclared(found, properties, i) ==       \* Mutant: resolved on the way, not at the end
    LET written == {n \in DOMAIN properties : callableIn(properties[n])}
        known == {n \in DOMAIN properties : properties[n] \in DOMAIN found.locals}
    IN Export(Declare(found, written, i),
              [n \in written \union known |-> IF n \in written THEN n ELSE properties[n]])

\* exports.name = right, and name: right in an object literal
ExportProperties(found, properties, i) ==
    LET written == {n \in DOMAIN properties : callableIn(properties[n])}
    IN Export(Declare(found, written, i),
              [n \in {m \in DOMAIN properties : properties[m] # Unread} |->
                 IF n \in written THEN n ELSE properties[n]])

handleModuleExportsObjectLiteral(found, i) == ExportProperties(found, source[i].properties, i)

handleCommonJsAssignment(found, i) ==
    LET s == source[i]
    IN CASE s.kind = "property" -> ExportProperties(found, [n \in {s.name} |-> s.right], i)
         [] s.kind = "module" -> IF s.right \in Names
                                 THEN Default(ExportItself(found, s.right), s.right) ELSE found
         [] s.kind = "object" -> handleModuleExportsObjectLiteral(found, i)
         [] OTHER -> found       \* export { f as g } and export default f: no handler takes them

Visit(found, i) == CASE source[i].kind = "function" -> handleFunctionDeclaration(found, i)
                     [] source[i].kind = "variable" -> handleVariableStatement(found, i)
                     [] OTHER -> handleCommonJsAssignment(found, i)

\* what the first n statements have filled in
FoundBy[n \in 0 .. Len(source)] ==
    IF n = 0 THEN NothingFound ELSE Visit(FoundBy[n - 1], n)
Walk == FoundBy[Len(source)]

\* one per exported name whose local name was declared, wherever in the file
Signatures(found) ==
    {[name |-> n, function |-> found.locals[found.exported[n]],
      isDefaultExport |-> {n, found.exported[n]} \intersect found.defaults # {}] :
        n \in {m \in DOMAIN found.exported : found.exported[m] \in DOMAIN found.locals}}

\* (with a functionNameFilter: the one of that name, or a FunctionNotFoundError)
ExtractExportedFunctions ==
    /\ ~extracted /\ extracted' = TRUE
    /\ signatures' = Signatures(Walk)
    /\ UNCHANGED source

ExtractSpec == ExtractInit /\ [][ExtractExportedFunctions]_extraction

TypeOK == /\ source \in Seq(EsModule) \union Seq(CommonJs) /\ extracted \in BOOLEAN
          /\ signatures \subseteq [name : Names, function : (1 .. MaxStatements) \X Names,
                                   isDefaultExport : BOOLEAN]

-----------------------------------------------------------------------------
(* What an importer gets (external: Node's module loader). A function is the    *)
(* statement that has it and its name; a name not declared here was required.    *)

ValueOf(n) == IF \E i \in DOMAIN source : Declares(source[i]) /\ source[i].name = n
              THEN <<CHOOSE i \in DOMAIN source : Declares(source[i]) /\ source[i].name = n, n>>
              ELSE <<0, n>>

Replaces(i) == source[i].kind \in {"module", "object"}      \* module.exports = ...
\* what an assignment of a property or an object literal gives to which name
PropertiesOf(s) == IF s.kind = "property" THEN [n \in {s.name} |-> s.right] ELSE s.properties

\* the names a statement exports, and the function each stands for
NamedBy(i) ==
    LET s == source[i]
    IN CASE Declares(s) -> IF s.modifiers = {"export"} THEN {<<s.name, ValueOf(s.name)>>} ELSE {}
         [] s.kind = "list" -> {<<s.name, ValueOf(s.right)>>}
         [] s.kind \in {"property", "object"} ->
              {<<n, IF PropertiesOf(s)[n] \in Names THEN ValueOf(PropertiesOf(s)[n]) ELSE <<i, n>>>> :
                 n \in DOMAIN PropertiesOf(s)}
         [] OTHER -> {}

Named == UNION {NamedBy(i) : i \in DOMAIN source}

DefaultBy(i) ==
    LET s == source[i]
    IN CASE Declares(s) -> IF "default" \in s.modifiers THEN {ValueOf(s.name)} ELSE {}
         [] s.kind \in {"module", "default"} -> {IF s.right \in Names THEN ValueOf(s.right) ELSE <<i, Callable>>}
         [] OTHER -> {}

DefaultExports == UNION {DefaultBy(i) : i \in DOMAIN source}

(* What the extractor reads: the functions a statement writes down in a form     *)
(* callableIn finds, and the exports its handlers take.                          *)

Writes(i, k) ==
    LET s == source[i]
    IN \/ s.kind = "function" /\ s.name = k
       \/ s.kind = "variable" /\ s.name = k /\ callableIn(s.initializer)
       \/ s.kind \in {"property", "object"} /\ k \in DOMAIN PropertiesOf(s)
             /\ callableIn(PropertiesOf(s)[k])

Readable(function) == function[1] \in DOMAIN source /\ Writes(function[1], function[2])
Handled(i) == source[i].kind \notin {"list", "default"}

\* A file that says each thing once: module.exports is replaced at most once and before other
\* exports, no name is exported as two things, and a function written for a property does not
\* share its name with anything else in the file.
Plain ==
    /\ \A i \in DOMAIN source : ~Declares(source[i]) =>
         \A j \in DOMAIN source : Replaces(j) =>
           \/ i = j
           \/ j < i /\ source[i].kind = "property" /\ source[i].base = "module.exports"
    /\ \A e, f \in Named : e[1] = f[1] => e = f
    /\ \A e \in Named : (\E i \in DOMAIN source : source[i].kind = "module" /\ source[i].right = e[1])
                         => ValueOf(e[1]) = e[2]
    /\ \A e \in Named : Readable(e[2]) /\ ~Declares(source[e[2][1]]) =>
         \A i \in DOMAIN source : /\ Declares(source[i]) => source[i].name # e[1]
                                 /\ e[1] \notin Uses(source[i])

\* Of a plain file, in whatever order it declares and exports: each function that is listed is what
\* an import of that name (or of the default) gives, so a generated test neither imports what is
\* not there nor shows the text of another function; and no function is left out that is written in
\* a form callableIn reads and exported in a form a handler takes. Left out, though exported, are
\* the others: export { f as g }, export default f, module.exports = () => {}, methods and
\* quoted keys of an exported object, and functions only another expression gives.
SignaturesAreTheExports ==
    extracted /\ Plain =>
      /\ \A s \in signatures : IF s.isDefaultExport THEN s.function \in DefaultExports
                                ELSE <<s.name, s.function>> \in Named
      /\ \A i \in DOMAIN source : Handled(i) =>
           /\ \A e \in NamedBy(i) : Readable(e[2]) =>
                \E s \in signatures : s.name = e[1] /\ s.function = e[2]
           /\ \A f \in DefaultBy(i) : Readable(f) =>
                \E s \in signatures : s.isDefaultExport /\ s.function = f

-----------------------------------------------------------------------------
(* What the walk finds (proved in Engines_proofs): which statements export a     *)
(* local name under a name, and which export one as default.                     *)

Exports(i, k, local) ==
    LET s == source[i]
    IN \/ Declares(s) /\ "export" \in s.modifiers /\ Writes(i, k) /\ local = k
       \/ s.kind \in {"property", "object"} /\ k \in DOMAIN PropertiesOf(s)
             /\ PropertiesOf(s)[k] # Unread
             /\ local = IF callableIn(PropertiesOf(s)[k]) THEN k ELSE PropertiesOf(s)[k]
       \/ s.kind = "module" /\ s.right = k /\ k \in Names /\ local = k

IsDefault(i, k) == \/ source[i].kind = "function" /\ source[i].name = k
                        /\ {"export", "default"} \subseteq source[i].modifiers
                   \/ source[i].kind = "module" /\ source[i].right = k /\ k \in Names

\* The Maps and the Set after n statements: each key is from one of them, and none is missing.
FoundSoFar(found, n) ==
    /\ found = [locals |-> found.locals, exported |-> found.exported, defaults |-> found.defaults]
    /\ \A k \in DOMAIN found.locals : \E i \in 1 .. n : Writes(i, k) /\ found.locals[k] = <<i, k>>
    /\ \A i \in 1 .. n, k \in Names : Writes(i, k) => k \in DOMAIN found.locals
    /\ \A k \in DOMAIN found.exported : k \in Names /\ \E i \in 1 .. n : Exports(i, k, found.exported[k])
    /\ \A i \in 1 .. n, k, local \in Names : Exports(i, k, local) => k \in DOMAIN found.exported
    /\ found.defaults = {k \in Names : \E i \in 1 .. n : IsDefault(i, k)}

ExtractInv == /\ TypeOK /\ Loads(source) /\ Len(source) <= MaxStatements
              /\ (~extracted => signatures = {}) /\ SignaturesAreTheExports
=============================================================================
