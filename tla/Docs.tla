-------------------------------- MODULE Docs --------------------------------
(***************************************************************************)
(* The documentation a server gives of its handlers (docgenerator): the    *)
(* shape of a method's input and output, and the protobuf file descriptors *)
(* a client asks for by the message names it finds there.                  *)
(*                                                                         *)
(* A Go type is <<"basic", n>>, <<"struct", n>>, <<"ptr", t>> or           *)
(* <<"slice", t>>.  A document is <<"leaf", n>>, <<"list", d>>,            *)
(* <<"fields", f>> with f a function from names to documents, or           *)
(* <<"named", n, d>>, the one-entry map made when names are asked for.     *)
(*                                                                         *)
(* Struct types are assumed not to contain themselves: on one that does,   *)
(* parseType does not end.                                                 *)
(***************************************************************************)
EXTENDS Naturals, FiniteSets, Sequences

CONSTANTS
    Structs,      \* struct types
    Fields,       \* their fields, [name, lower, private, xxx, tag]
    FileOf,       \* the .proto file of a struct that is a message, or NoFile
    NoFile,
    Files,        \* registered .proto files, as numbers: a file imports
                  \* files of a lower number only
    Placeholder,  \* an import whose FileDescriptor is nil
    Methods,      \* methods, [input, output]
    NoTag         \* a field without a json tag

VARIABLES
    imports,    \* the imports of each file
    services,   \* the methods registered so far
    docs,       \* the last documentation returned, by method
    descs       \* the client's protoDescs, the paths it holds

docsVars == <<imports, services, docs, descs>>

(* validName, getName: what a field is called in the documents. *)
validName(field) == ~field.xxx /\ ~field.private /\ field.tag /= "-"

getName(field, isOutput) ==
    IF field.tag /= NoTag THEN field.tag
    ELSE IF isOutput THEN field.name ELSE field.lower

(* The name of a struct: the protobuf message's or the Go type's. *)
TypeName(s) == IF FileOf[s] /= NoFile THEN <<"message", s>> ELSE <<"go", s>>

(* parseType: the document of a type, its fields and theirs included.      *)
(* A later field of the same name replaces an earlier one.                 *)
RECURSIVE parseType(_, _, _)
parseType(typ, isOutput, getPtrNames) ==
    LET StructDoc(s) ==
            LET valid == {i \in DOMAIN Fields[s] : validName(Fields[s][i])}
                name(i) == getName(Fields[s][i], isOutput)
                last(n) == CHOOSE i \in valid :
                             /\ name(i) = n
                             /\ \A j \in valid : name(j) = n => j <= i
                fields == <<"fields",
                            [n \in {name(i) : i \in valid} |->
                              parseType(Fields[s][last(n)].type,
                                        isOutput, getPtrNames)]>>
            IN IF getPtrNames THEN <<"named", TypeName(s), fields>> ELSE fields
    IN CASE typ[1] = "ptr" -> IF typ[2][1] = "struct"
                              THEN StructDoc(typ[2][2])
                              ELSE <<"leaf", typ>>
         [] typ[1] = "struct" -> IF typ[2] = "time.Time"
                                 THEN <<"leaf", typ>>
                                 ELSE StructDoc(typ[2])
         [] typ[1] = "slice" ->
              LET parsed == parseType(typ[2], isOutput, getPtrNames)
              IN IF parsed = <<"leaf", <<"basic", "uint8">>>>
                 THEN <<"leaf", <<"basic", "[]byte">>>>
                 ELSE <<"list", parsed>>
         [] OTHER -> <<"leaf", typ>>

(* docForType: a pointer at the top is named and not looked into, the      *)
(* client needs the top type alone.                                        *)
docForType(typ, isOutput, getPtrNames) ==
    IF typ[1] /= "ptr" THEN parseType(typ, isOutput, getPtrNames)
    ELSE IF getPtrNames
         THEN <<"named", TypeName(typ[2][2]), <<"fields", <<>>>>>>
         ELSE <<"fields", <<>>>>

docForMethod(m, getPtrNames) ==
    [input |-> IF m.input = <<>> THEN <<>>
               ELSE <<docForType(m.input[1], FALSE, getPtrNames)>>,
     output |-> IF m.output = <<>> THEN <<>>
                ELSE <<docForType(m.output[1], TRUE, getPtrNames)>>]

(* A slip: the walk ends at an import without descriptor. *)
RECURSIVE recusionImportsStops(_, _)
recusionImportsStops(file, held) ==
    LET RECURSIVE Walk(_, _)
        Walk(todo, h) ==
            LET next == CHOOSE f \in todo : TRUE
            IN IF todo = {} \/ Placeholder \in todo THEN h
               ELSE Walk(todo \ {next}, recusionImportsStops(next, h))
    IN IF file \in held THEN held
       ELSE Walk(imports[file], held \union {file})

(* recusionImports: a file already held is not walked again; an import     *)
(* without descriptor is passed over.                                      *)
RECURSIVE recusionImports(_, _)
recusionImports(file, held) ==
    LET RECURSIVE Walk(_, _)
        Walk(todo, h) ==
            IF todo = {} THEN h
            ELSE LET next == CHOOSE f \in todo : TRUE
                 IN Walk(todo \ {next},
                         IF next = Placeholder THEN h
                         ELSE recusionImports(next, h))
    IN IF file \in held THEN held
       ELSE Walk(imports[file], held \union {file})

-----------------------------------------------------------------------------
Init ==
    /\ imports \in [Files -> SUBSET (Files \union {Placeholder})]
    /\ \A f \in Files : \A g \in imports[f] \ {Placeholder} : g < f
    /\ services = {} /\ docs = <<>> /\ descs = {}

(* A component is registered. *)
Register(m) ==
    /\ m \notin services
    /\ services' = services \union {m}
    /\ UNCHANGED <<imports, docs, descs>>

(* HandlersDocs, and RemotesDocs alike: every method has its document,     *)
(* under its route.                                                        *)
HandlersDocs(getPtrNames) == [m \in services |-> docForMethod(m, getPtrNames)]

(* App.Documentation: the handlers' documents and the remotes'. *)
Documentation(getPtrNames) ==
    /\ docs' = HandlersDocs(getPtrNames)
    /\ UNCHANGED <<imports, services, descs>>

(* The messages a document names at its top. *)
Named(d) == {d[i][2] : i \in {i \in DOMAIN d : d[i][1] = "named"}}

MessageNames == UNION {Named(docs[m].input) \union Named(docs[m].output) :
                         m \in DOMAIN docs}

(* Descriptor (ProtoDescriptors) for one of the names documented: it must  *)
(* be the name of a registered message.                                    *)
ProtoDescriptors(name) ==
    /\ name[1] = "message"
    /\ descs' = recusionImports(FileOf[name[2]], descs)
    /\ UNCHANGED <<imports, services, docs>>

(* FileDescriptor (ProtoFileDescriptors) for a file by its path. *)
ProtoFileDescriptors(file) ==
    /\ descs' = recusionImports(file, descs)
    /\ UNCHANGED <<imports, services, docs>>

Next ==
    \/ \E m \in Methods : Register(m)
    \/ \E b \in BOOLEAN : Documentation(b)
    \/ \E name \in MessageNames : ProtoDescriptors(name)
    \/ \E f \in Files : ProtoFileDescriptors(f)

Spec == Init /\ [][Next]_docsVars

-----------------------------------------------------------------------------
(* What encoding/json does with a field: the keys it accepts for it when   *)
(* it reads, and the key it writes.                                        *)
JsonReads(field) ==
    IF field.private \/ field.tag = "-" THEN {}
    ELSE IF field.tag = NoTag THEN {field.name, field.lower} ELSE {field.tag}

JsonWrites(field) ==
    IF field.private \/ field.tag = "-" THEN {}
    ELSE IF field.tag = NoTag THEN {field.name} ELSE {field.tag}

(* A documented struct has exactly the members its JSON form has: every    *)
(* name it gives is one a field of the struct is read (an input) or        *)
(* written (an output) under, and every field that is not private, ignored *)
(* or of protobuf's own (XXX_) has its name there.                         *)
RECURSIVE Agrees(_, _, _)
Agrees(typ, d, isOutput) ==
    LET body == IF d[1] = "named" THEN d[3] ELSE d
        keys(f) == IF isOutput THEN JsonWrites(f) ELSE JsonReads(f)
    IN CASE typ[1] = "slice" /\ d[1] = "list" ->
              Agrees(typ[2], d[2], isOutput)
         [] typ[1] = "ptr" /\ body[1] = "fields" ->
              Agrees(typ[2], body, isOutput)
         [] typ[1] = "struct" /\ body[1] = "fields" ->
              LET fs == {Fields[typ[2]][i] : i \in DOMAIN Fields[typ[2]]}
                  shown == {f \in fs : ~f.xxx /\ keys(f) /= {}}
              IN /\ \A f \in shown : \E n \in DOMAIN body[2] :
                      /\ n \in keys(f)
                      /\ Agrees(f.type, body[2][n], isOutput)
                 /\ \A n \in DOMAIN body[2] : \E f \in shown : n \in keys(f)
         [] typ[1] = "slice" -> d = <<"leaf", <<"basic", "[]byte">>>>
         [] OTHER -> d[1] = "leaf"

(* The files a file needs, itself included: every file reachable by its    *)
(* imports.                                                                *)
Needs(file) ==
    {f \in Files : \E n \in 1..Cardinality(Files) :
       \E path \in [1..n -> Files] :
         /\ path[1] = file /\ path[n] = f
         /\ \A i \in 1..(n - 1) : path[i + 1] \in imports[path[i]]}

(* The documentation can be used by a client: what is documented below the *)
(* top of a type (docForType looks into values and slices, not pointers)   *)
(* is what the JSON serializer reads and writes, and the descriptors the   *)
(* client holds are complete, so that each file it has can be linked: with *)
(* a file it holds every file that one needs, whatever was asked before.   *)
DocsUsable ==
    /\ \A m \in DOMAIN docs :
         /\ \A i \in DOMAIN m.input :
              m.input[i][1] /= "ptr" =>
                 Agrees(m.input[i], docs[m].input[i], FALSE)
         /\ \A i \in DOMAIN m.output :
              m.output[i][1] /= "ptr" =>
                 Agrees(m.output[i], docs[m].output[i], TRUE)
    /\ \A f \in descs : Needs(f) \subseteq descs
=============================================================================
