# SwiftyExpat in TLA+

TLA+ models of SwiftyExpat: the expat XML parser (C, `Sources/Expat`) and the Swift class
that wraps it (`Sources/SwiftyExpat`).  Paths and line numbers below are relative to
`src/Sources/Expat` unless they say otherwise; `xmlparse.c` is the file meant by a bare line
number.

What expat promises is simple to say: *the application sees the callbacks of its document,
each once and in document order, and then success or the document's error - however the
document is cut into buffers and whenever a handler suspends, resumes or aborts the parser.*
Keeping the promise is not simple, because expat has no thread of its own: it is a coroutine
written out by hand.  When the text runs out, or a handler calls `XML_StopParser`, every C
activation returns, and the place to go on from has to be in the parser object: in
`m_bufferPtr`, in the choice of `m_processor`, in `m_tagStack`, `m_openInternalEntities` and
`ENTITY.processed`.  This is what the first part of the project models and proves about.  The second is
the reading of element declarations, where three counts of the same parentheses, in two files
and three tables that grow by themselves, have to agree.  Below the parser are the tokenizer,
which has no state but must find the same tokens wherever the text is cut, and the parse
buffer, whose bytes move while pointers point to them; above it, the names with namespaces,
which live in buffers shared by all elements of a namespace.

## 1. Inventory

| component | state | operations | interacts with |
|---|---|---|---|
| parser life cycle (`XML_Parse` 1728, `XML_ParseBuffer` 1882, `XML_GetBuffer` 1941, `XML_StopParser` 2059, `XML_ResumeParser` 2089, `XML_ParserReset` 1090) | `m_parsingStatus`, `m_processor`, `m_errorCode`, `m_bufferPtr/End/Lim` | the calls of the application | calls `m_processor`; handlers call it back |
| content (`doContent` 2577, `doCdataSection` 3578, the processors) | `m_tagStack`, `m_freeTagList`, `m_tagLevel` | one step per token | tokenizer, handlers, entities |
| internal entities (`processInternalEntity` 5170, `internalEntityProcessor` 5226) | `m_openInternalEntities`, `m_freeInternalEntities`, `ENTITY.open`, `ENTITY.processed` | enter, leave, suspend inside, resume | recursion through `doContent`, `doProlog` |
| prolog and DTD (`doProlog` 4118, `entityValueInitProcessor` 3965 ff.) | `DTD`, `m_prologState`, the declaration being read | one step per token | roles, string pools, hash tables, handlers |
| prolog roles (`xmlrole.c`) | `PROLOG_STATE`: handler, level, includeLevel, role_none | `XmlTokenRole` | called once per prolog token |
| content models (`nextScaffoldPart` 6774, `build_model` 6853, `doProlog` 4775-5046) | `scaffold`, `scaffIndex`, `scaffLevel`, `m_groupConnector` | one step per token of an element declaration | roles |
| attributes and namespaces (`storeAtts` 3057, `addBinding` 3443, `getContext` 5899, `setContext` 5995) | `m_inheritedBindings`, `m_nsAtts`, `PREFIX.binding`, `TAG.bindings` | start tag, end tag, child parser | hash tables, pools |
| input buffer (`XML_GetBuffer`) | `m_buffer`, `m_bufferPtr`, `m_bufferEnd`, `m_bufferLim`, `m_parseEndPtr` | get, fill, parse, keep context | life cycle |
| hash tables (`lookup` 6403) and string pools (`poolGrow` 6670) | open addressing tables; block lists | look up and insert, grow; append, finish, discard, clear | DTD, attributes, entities |
| child parsers (`XML_ExternalEntityParserCreate` 1158) | a second parser with a copy of (general entity) or the same (parameter entity) `DTD` | create, parse, free inside the parent's handler | parent's DTD and bindings |
| tokenizer (`xmltok.c`, `xmltok_impl.c`, `xmltok_ns.c`) | none (positions); `INIT_ENCODING` | `XmlPrologTok`, `XmlContentTok`, ... conversion | all processors |
| Swift wrapper (`src/Sources/SwiftyExpat/Expat.swift`) | `isClosed`, `parser`, the closures | `write`, `feed`, `close`, `onError`, handlers | the C API, callbacks |

What is hard in this code, and hard to test:

* **suspension and abort at every token**, inside entities and CDATA sections, in the last
  token of a text, in the epilogue, at the final call with no data;
* **buffer boundaries**: a token cut in two, a carriage return at the end of a buffer, a
  buffer that moves while the stack of open elements points into it;
* **recursion**: an entity in an entity is a C activation that holds a pointer to a list
  record while the same list is pushed and popped;
* **partial failure**: an error is returned through several activations, each of which has
  something to undo or to leave alone;
* **reuse**: `XML_ParserReset` after anything;
* **arithmetic** of the buffer, the pools and the tables at their limits;
* **two parsers on one DTD**, and a Swift object that can be closed inside of its callbacks.

Nothing runs concurrently: a parser belongs to one thread.  The interleaving that matters is
that of the application's calls, the handlers' calls and the C activations.

`PROJECT.json` lists each hazard at its line with the properties that guard it.

## 2. Modules

* `Documents` - the data: a document, and the replacement text of an entity, is a sequence of
  tokens (what one call of the tokenizer finds); which documents are external entities.
* `XmlParser` - the parser object: the API calls, every processor a document without a DTD
  goes through, the content and CDATA loops, internal entities.  One action per case of
  `doContent`'s switch, per return of an activation, per API call.
* `DocumentReader` - the abstract specification of the promise above: callbacks are delivered
  in document order, then the verdict, or an abort if the application has asked for one.
* `DocumentMeaning` - the reference: callbacks and verdict of a document by one pass over its
  tokens, with entities expanded in place; no buffers, processors or suspension.
* `MCXmlParser` - the documents and entities of the TLC runs, and the refinement mapping
  `XmlParser => DocumentReader` (`ImplementsReader`).  `aborted` is that status: `XML_FINISHED`
  before there is a verdict is what `XML_StopParser` leaves.  So `XML_ERROR_ABORTED` is allowed
  only to a parser that was stopped, and after the abort only what belongs to the callback comes
  (`expat.h:768`), which at `<![CDATA[` includes the next token's.  If a document has its error
  right after the callback that aborted, the error may be reported in place of the abort.
* `XmlParserProofs` - the theorems about `XmlParser` that hold of every behaviour.
* `XmlEntityProofs` - those about open entities, of the behaviours in which no handler suspends the
  parser inside of nested entities.
* `XmlSuspensionProofs` - the names of open elements in behaviours that are never suspended inside of
  entities, for which documents and handlers these are all behaviours, and for which documents
  entities are never nested.
* `PrologRoles` - `xmlrole.c`: `XmlTokenRole`, the role of a token and the next handler, one
  row per case of every handler function.
* `ContentModel` (extends `PrologRoles`) - what `doProlog` does for the roles of an element
  declaration, `nextScaffoldPart` and `build_model`, with failing allocations, the handler
  being set and removed, and `XML_ParserReset`.
* `ContentSpec` - the reference: an element declaration read by XML's grammar on a stack of
  groups; no tables, indexes or depths.  `ContentModel` ends with the comparison
  (`RefusedForSyntax`, `ModelAsDeclared`).
* `MCContentModel` - the tokens of the TLC runs.
* `ContentModelProofs` - the theorems about the tables of `ContentModel`.
* `ContentSyntaxProofs` - that `doProlog` refuses what the reference refuses.
* `ContentTreeProofs` - that the handler gets the model the reference reads.
* `Tokenizer` - the scanners of `xmltok_impl.c` as operators from a text, a start and an end to
  a token and the position after it, for UTF-8: content, CDATA and ignored sections, prolog,
  attribute and entity values, and the readers of what they found (`getAtts`,
  `charRefNumber`, `predefinedEntityName`, `updatePosition`).
* `TokenStream` (extends `Tokenizer`) - a parser that reads a text through them, handed over in
  pieces cut between any two bytes, with what its loops do about a token that is not complete.
* `MCTokenStream` - the texts of the TLC run, and tags, references and comments by the
  productions of XML 1.0, as functions on sets of positions.
* `ByteStream` - the abstract specification of the buffer: bytes wait in order.
* `InputBuffer` - `XML_GetBuffer` and what the calls do with the pointers into the buffer.
* `InputBufferProofs` - the theorems about `InputBuffer`, that it implements `ByteStream` too.
* `NamespaceNames` - names, attributes and callbacks with namespaces; shared by the next two.
* `NamespaceScopes` - the abstract specification: elements have scopes, maps from prefixes to
  namespaces, and which declarations break which rule of Namespaces in XML (`Broken`).
* `Namespaces` - `storeAtts`, `addBinding`, `doContent`'s tags, `getContext` and `setContext`,
  and the refinement mapping `Namespaces => NamespaceScopes` (`ImplementsScopes`).
* `MCNamespaces` - the tags of the TLC run and its view of the states.
* `NamespacesProofs` - the theorems about `Namespaces`.

The modules compose by `EXTENDS` where one's operators are the other's (`PrologRoles` in
`ContentModel`, `Tokenizer` in `TokenStream`) and otherwise by their contracts: `XmlParser`
reads tokens that `TokenStream` shows do not depend on the cut, its `m_bufferPtr` is that of
`InputBuffer`, whose processor is any that reads a prefix of the buffer, and the tag stack of
`Namespaces` is the one of `XmlParser`.

### How `XmlParser` corresponds to the code

The activations of a running call are the frames of `cstack`; `fn` is the function, `ent`
the text it reads, `s` how many tokens of it are consumed (`s`, `*eventPP`), `lvl` its
`startTagLevel`, `by` the function it returns to and `oe` the place of its
`OPEN_INTERNAL_ENTITY`.  A step is one token with its callbacks, or one return: `result` holds
the value being returned, and `ReturnFrom...` is the rest of the calling function.  So
`processInternalEntity` is `ContentEntityRef` (open the record, call `doContent`) and
`ReturnFromEntity` (suspended inside: keep `processed`, set `internalEntityProcessor`; else
close the record), with the rest of the caller's loop body in `CallerTail`.

`parsing` is `m_parsingStatus.parsing`; `avail` and `partial` say how much of the document the
parser has been given; `bufferPtr` is `m_bufferPtr`, in tokens.  A handler may leave any status that
`XML_StopParser` calls can (`AfterHandler`), so a callback is a nondeterministic choice of
going on, suspending or aborting.  `rawName` pointers are modelled by where they point to
(`buffer`, `stored`, `entity`) and become `stale` when the buffer moves; a comparison through a
stale pointer has either outcome.  `pool` counts records allocated and on the free lists.
An end tag that meets an empty stack dereferences a null pointer in C; the model stops there
(`call = "crashed"`).  It is reached (section 5): such runs allow deadlock.

Abstracted: names and character data are model values; comments and processing instructions
are one kind of token; attributes, namespaces and positions are left out here.  Not modelled
in `XmlParser`: external entity references in content, the prolog's declarations, allocation
failure, the encoding, `XML_SetXxx` calls in the middle of a document.

### How `ContentModel` corresponds to the code

An action is one token of a declaration: `Reads` asks `PrologRoles` for its role and moves
`m_prologState`, and the rest is the case of `doProlog`'s switch for the role (the map in
`PROJECT.json` names its lines).  `dtd` holds the fields of `DTD` under "scaffolding for
building content model"; a table is a function on `0..size-1`, NULL the empty one, and what
`malloc` or `realloc` did not initialise is `undefined`.  Every allocation may fail; the failing
alternative keeps what the code had already assigned by then (`Unallocated` for
`nextScaffoldPart`, `m_groupSize` doubled but `scaffIndex` not, a node without its name).
`XML_SetElementDeclHandler` and `XML_ParserReset` may come between any two tokens: a handler
may call the first, and the application may stop feeding and reset.  `XML_ParserReset` keeps
`m_groupConnector`, `m_groupSize` and `m_prologState.level` as the code does.  White space and
parameter entity references are tokens as well; the replacement text of a reference is the
tokens that follow.  `decl`, `kept` and `delivered` are history for the properties: the tokens
of the current declaration, whether the handler was set all the time since its name, and the
handler's calls.  A token's keyword (`EMPTY`, `#PCDATA`, ...) is part of its kind.

`m_prologState.level` is not initialised by `XmlPrologStateInit`; it is read only in a group,
and the first group sets it, so the model's 0 is never seen.  `build_model` reads the scaffold
by its indexes and does not look at the declaration.

Not in `ContentModel`: the other declarations' effects (`Other` covers their roles, of which
none touches these variables), a parameter entity that ends inside a declaration
(`XML_ERROR_INCOMPLETE_PE`), a child parser on the same DTD (it has an `m_groupSize` of its own;
what is proved below is about one parser), and the width of the integers.

### How `Tokenizer` and `TokenStream` correspond to the code

A scanner `f(t, p, e)` is the function of that name with `ptr` = `p` and `end` = `e`; its result
is the token and `*nextTokPtr` (0 where the code leaves it unset).  Bytes are members of a small
alphabet that has at least one of every byte type the modelled cases tell apart; "C3", "CC" lead
two-byte characters (a name starts with the one and may go on with the other), "A1", "97" trail
them.  The checks of a whole character (`IS_INVALID_CHAR`, `IS_NMSTRT_CHAR`, ...) are as they are in
`xmltok.c`: a name's does not look at the second byte.  A loop of the code is a recursive operator,
a jump to a label is a call of it.

`TokenStream` has one action per round of the loop of `doContent`, `doCdataSection`,
`doIgnoreSection` and `doProlog`: the token at `s`, what the handlers get of it (`out`, where pieces of
data are merged, because expat promises nothing of how it divides them), and where the next one
starts.  `haveMore` is `~final`.  The text grows between calls by any bytes its script allows,
so every text of a script comes in every division.  `positionPtr` and `position` are what
`XML_GetCurrentLineNumber` keeps; the application may ask in any state.  Not modelled: UTF-16,
characters of three and four bytes, `isPublicId`, conversion to UTF-8 and UTF-16, detection of
the encoding and the XML declaration's own parser.  In content mode the element is never closed:
`tagLevel` is above `startTagLevel`, which is why the run's texts have no verdict of nesting.

### How `InputBuffer` corresponds to the code

Pointers are offsets from `m_buffer`; one that is not updated when the buffer moves is `Stale`.
A byte is its index in the document and `memory` the buffer's contents, `Unset` what was never
written.  `XML_GetBuffer` has an action per way it takes (`GetRoom`, `ShiftData`, `NewBuffer`,
`NoMemory`, `Overflows`); `int` is bounded by `IntMax`, and an addition past it that the code does
not exclude sets `undefined`, where the model stops.  The processor is replaced by the contract
that `XmlParser` and `TokenStream` show: it reads on from `m_bufferPtr`, sets `m_eventPtr` to
tokens on its way (`Event`), and returns with a suffix unread, suspended or not, or with an
error.  `XML_Parse` with data is `XML_GetBuffer`, `memcpy` and `XML_ParseBuffer`, as it is compiled with
`XML_CONTEXT_BYTES`; it has set `XML_PARSING` (1748) before `XML_GetBuffer` runs out of memory, the
application's own call of `XML_GetBuffer` has not, so `NoMemory` may leave either status.  `noData`
marks the last call with no data: when a handler aborts it, `m_positionPtr` stays where it was (1790).

### How `Namespaces` corresponds to the code

The parser is a record, so that another can wait for it in its handler.  A `BINDING` is a number;
`binding` has the fields of each (`alloc` is `uriAlloc`, `behind` what was last written behind
the URI), and a chain by `nextTagBinding` is a sequence.  `name.str` of an open element is the
binding and the `uriAlloc` its buffer had: a buffer moves only when it grows, so the pair is the
pointer, and it dangles when `uriAlloc` has changed.  `storeAtts` is the composition of its parts,
each a function on what the call has put together so far (`Frame`); a loop over attributes or
over a chain is a recursive function of the number of rounds.  `flag` is the byte in front of an attribute's name.  The hash table `m_nsAtts` keeps its
versions from tag to tag; a name of an earlier tag lay in a pool that is cleared, so an old
entry that passes for a new one may be taken for any name.  `calls` is what the handlers were
given in the last step.

The DTD is a constant (`Defaults`): each document has the same declarations.  The parser of an
external general entity gets the context of its parent and a copy of the attributes without
their marks; what it does with elements left open at its end is in `XmlParser`.  Not modelled:
attribute values and their normalization (`TokenStream`), `m_idAttIndex`, failed allocation, a
null separator, handlers that are not set.

## 3. Runs

| run | question | properties |
|---|---|---|
| `XmlParserMain` | every document `<a>` + up to 2 tokens of any kind + end, and external entities of up to 3 tokens, with every division into buffers, handlers that suspend or abort anywhere outside of entities | `ImplementsReader`, `TagLevelCountsStack`, `RawNamesStored`, `OpenFlagsMatchList` |
| `XmlParserEntities` | suspension and abort inside of internal entities that refer to no other, and one `XML_ParserReset` in any state | `ImplementsReader`, `AbortReported`, `TagsConserved`, `EntitiesConserved` |
| `XmlParserAny` | no restriction: nested entities, unbalanced ones, CDATA in entities, an external entity; under fairness | `TypeOK`, `IndInv`, `HeldRecordsAreListed`, `ErrorIsFinal`, `CallReturns`, `Decided` |
| `ContentModel` | every sequence of up to 6 tokens of all kinds an element declaration knows, an attribute list, parameter entity references, documents and external subsets, one reset | `ModelAsDeclared`, `RefusedForSyntax`, `TypeOK`, `IndexesInBounds` |
| `ContentNesting` | declarations of groups only, up to 12 tokens: nesting and several declarations in a row | `ModelAsDeclared`, `RefusedForSyntax`, `IndexesInBounds` |
| `TokenStream` | for every scanner a text that leads up to it and every continuation of 3 to 5 bytes it tells apart, cut anywhere | `TypeOK`, `CutIndependent`, `PositionIndependent`, `LineEndsNormalized`, `AttributesReadBack`, `LastCallReadsAll`, `LiteralsReadable`, `MarkupByGrammar`, `EveryTokenAdvances` |
| `InputBuffer` | any sequence of calls, up to 8 bytes of document, sizes up to the greatest integer | `TypeOK`, `BufferHoldsInput`, `RoomGranted`, `ContextKept`, `EventLocated`, `ImplementsByteStream` |
| `Namespaces` | four tags in all in a document, an external entity of it and the next document of a parser that was reset | `TypeOK`, `OpenNamesLive`, `BindingsConserved`, `ImplementsScopes` |
| `FindRawNames`, `FindNested`, `FindAbort`, `FindEmptyFinal` | violations, section 5 | one each |

**Bounds.**  `Docs` is the bound that matters: a run explores every document of a finite family
in every division into buffers.  Suspension is decided token by token and the parser keeps
nothing of a consumed token but the tag stack, the entity list and the processor, so two
tokens of free choice inside an element reach every pair of neighbouring cases, which is where
the places to go on from are chosen; three levels of elements and two of entities occur.
`MaxResets` = 1 is enough to bring a used parser into its initial state once.
`SuspendInEntities` = FALSE keeps handlers from suspending while an entity is open: with it TRUE
and entities nested or unbalanced, `ImplementsReader` fails in the ways of section 5, so
`XmlParserMain` excludes it for all documents and `XmlParserEntities` includes it for the
documents where the promise holds.

For element declarations `InitGroupSize` = 2 and `InitScaffoldSize` = 1 stand for 32 and 32:
`m_groupConnector` is doubled at depth 2, when `scaffIndex` may or may not exist, and at depth
4; the scaffold at its 2nd, 3rd and 5th node.  `MaxTokens` = 6 ends a
declaration with a group, with every handler setting, failed allocation and reset in between;
12 tokens nest to depth 5 and more and let a
second declaration meet the nodes and separators of the first.  `NameLength` differs for the two names,
so that the size of a model's memory tells them apart.  Nothing of a declaration outlives the
next but the tables and one reset leaves everything behind that resets can, so one is enough.

For `TokenStream` a script's continuation is as long as the longest sequence its scanner looks
at as a whole (`]]>` with one before, `-->`, `xml` as a target, a digit and its end, a two-byte
character at every place), and the lead-in brings the scanner where the choice begins.

`InputBuffer` has 2 bytes of context, a first buffer of 1 byte and a greatest integer of 11, for
1024, 1024 and 2^31 - 1: the buffer doubles up to three times, data is moved within the buffer and into
a new one with more, as much and less context before it than is kept, and both tests for
overflow are passed and failed.  A document of 8 bytes fills the buffer more often than it grows.

For `Namespaces` a buffer has room for the names of three of the four element types (`ExpandSpare`
is 4 for 24), so the fourth moves it while others lie in it; the version of the attribute table
starts at 2 instead of 2^32 - 1 and is used up by two tags, and the hashes of its names collide in
every size it has.  Two open elements show a scope around and a scope inside; four tags are enough for a binding
to be made, freed, used again and shadowed, and for the table to grow and to wrap.  The tags'
declarations meet every refusal of `addBinding`, and the one binding of `xml` that is allowed.  The run's `VIEW` leaves out of
a state what no action reads (`read`, `calls`, the owner of a binding after its tag, the
contents of freed bindings, what a stopped parser keeps that its reset overwrites); TLC
evaluates the action properties on every step, of states already seen too.

**Fairness** (`FairSpec`): weak fairness of `Step`, because a running call is C code that is
not preempted for ever; of `Feed`, an application that gives its document to the end; and of
`XML_ResumeParser`, an application that resumes what its handlers suspended.  An application
that stops calling gets no verdict, so `Decided` needs the last two, `CallReturns` only the
first.

The other modules state no liveness: a parser that waits for its next token owes nothing.  That a
call comes to its end is the action property `EveryTokenAdvances` in `TokenStream`.

Every property has a mutant of the model (in `PROJECT.json`, operators marked "Mutant" in
`XmlParser`, `PrologRoles`, `ContentModel`, `Tokenizer`, `TokenStream`, `InputBuffer` and `Namespaces`)
that violates it.

## 4. What is proved

`XmlParserProofs` proves for every set of documents, entities and names, every entity text,
with and without suspension in entities and for any number of resets:

* `TypeCorrect` - `Spec => []TypeOK`;
* `RecordsListed` - an activation that runs an entity finds its record on
  `m_openInternalEntities` when it returns, below those of the entities it runs;
* `LevelCounted` - `m_tagLevel` is the depth of `m_tagStack` (plus one in an external entity)
  until an error; it is the guard that end tags and the document's end go by;
* `TagsNotLost` - every `TAG` is on the stack or on the free list;
* `EndIsFinal` - after success, an error or an abort no callback is delivered until a reset.

None of them is inductive alone.  `IndInv` is: an entity's frame may be popped and its record
unlinked only because records are listed in the order of the frames (`HeldRecordsAreListed`);
`tagLevel' = 1` in `externalEntityInitProcessor` is right only because no element is open yet
(`InitPhase`: while that processor is installed nothing else runs); the quiet after an error
needs that no activation is left (`ErrorQuiet`) and that calls start from an empty stack of
activations (`Idling`).  `TypeOK` needs the others: `tagLevel - 1` is a natural number because
the stack is not empty and the level counts it; `oe - 1` because the record is listed.

The proof classifies what a step does to the activations (`Shape`: same, popped, started,
pushed, base) once, in `NextShape`, and derives the conjuncts about frames from that.  The
assumptions are those of `Documents` and `XmlParser` on the constants.

`ContentModelProofs` proves for every set of tokens and names, every initial size of the tables
and any number of tokens and resets:

* `TypeCorrect` - `m_groupConnector` is as long as `m_groupSize`, `scaffold` as `scaffSize`, and
  `scaffCount` nodes fit;
* `ContentModelInBounds` - at the next token of a declaration `m_prologState.level` is inside
  `m_groupConnector`, at an entry that was written; `scaffLevel - 1` is inside `scaffIndex`, the
  node it names and that node's last child are nodes in use.

The argument: `scaffLevel` is the automaton's `level` inside a group (`Collected`), which is below
`m_groupSize` (`GroupsOpen`), which is the length of `scaffIndex` if there is one
(`TablesInStep`) whichever was allocated first; and every last child is a node in use
(`Linked`).  After a failed allocation only the typing is kept, which is why `error` guards the
three: a realloc that fails leaves `m_groupSize` ahead of `scaffIndex`, and it must not be
used again before the reset frees it.  The automaton enters as one lemma (`TokenStep`): a token
with a role of a group moves `level` and the handler as `RoleStep` says, and all other handlers
stay out of element declarations.

About **open entities and open elements** `XmlEntityProofs` and `XmlSuspensionProofs` prove

* `EntityRecordsNotLost` - `Spec /\ []NotSuspendedNested => []EntitiesConserved`;
* `OpenFlagsExact` - `Spec /\ []NotSuspendedNested => []OpenFlagsMatchList`: `ENTITY.open` is set for
  the entities on the list, each of which is there once;
* `RawNamesKept` - `Spec /\ []NotSuspendedInEntity => []RawNamesStored`.

The hypotheses are about behaviours: `NotSuspendedNested` says that a suspended parser has at most
one open entity, `NotSuspendedInEntity` that it has none.  They cannot be dropped (section 5, 1, 2
and 5), and they are not empty: `XmlSuspensionProofs` proves them from what is
assumed of documents and handlers, which is what the runs assume as well.

* `SuspendedOutsideEntities` - if handlers do not suspend inside of entities
  (`HandlersStayOutside`) and no reference directly follows a CDATA section
  (`NoReferenceAfterCdata`; finding 9: the reference would be followed by a parser that is already
  suspended), then no parser is suspended in an entity, and all four properties hold;
* `UnnestedEntities` - if the entities a document refers to contain neither references nor CDATA
  sections (`PlainEntities`; finding 7b), handlers may suspend anywhere, and at most one entity
  is open when they do.

The inductive invariants: an entity's `open` is true while its record is listed, and a record
that no activation holds is the last one (`EntityInv`: it is that of a suspended entity, taken up by
`internalEntityProcessor`); names on the stack above an activation's `startTagLevel` may lie in the buffer only
while that activation runs for `contentProcessor`, and all below it are stored (`RawNameInv`); a
section that was closed while the parser was suspended is closed by the token before the place to go on
from (`SuspensionInv`).

`ContentSyntaxProofs` proves `SyntaxRefused` - `Spec => []RefusedForSyntax`, that `doProlog` reports
`XML_ERROR_SYNTAX` exactly at the first token by which the declaration read so far is not one of
the grammar, for every vocabulary, depth and number of declarations.  The reference reads on a
stack of groups; the code has the handler of `PROLOG_STATE`, a `level` and a character per level.
`SyntaxInv` relates them: at every moment of a declaration the handler is the reference's
expectation, `level` the height of its stack and `m_groupConnector[1..level - 1]` the separators of
its groups (`Follows`); `StepsAgree` is the step, one case for each of the automaton's states and tokens.  The
reference is a fold, so the lemmas on it go by induction over the declaration, which is stated with
a set (`SetInduction`, from the library's `WFMin`) in the place of a predicate.

`ContentTreeProofs` proves `DeclaredModels` - `Spec => []ModelAsDeclared`: the handler is called at most once
for an element declaration, with the content model the declaration spells, and it is called
if it was set since the element's name and no allocation failed.  The reference has trees; the code
has one table of nodes with `firstchild`, `nextsib`, `lastchild` and `childcnt`, a path of indexes
in `scaffIndex`, and a copy of the table that `build_model` makes in the end.  The invariant
(`ModelInv`) says of a declaration that is being read (`Collects`) that there are

* for every node in use the sequence of its members, which the four fields hold: member `c`
  is at least `c` nodes behind its parent, and no node is a member twice (`Linking`);
* for every node that is not an open group a tree, made of its label and the trees of its members
  (`Trees`),

such that the open groups are a path from node 0 of which each is the last member of the one
before (`Path`), and the members of the reference's open groups are the trees of the members of these nodes
(`GroupRead`); that `scaffCount` and `contentStringLen` are the nodes and characters read
(`Collects`, and 0 between declarations: `Counted`); and of the handler's calls, how far the declaration has come when
there is one (`Delivery`).  A name or a group that opens is adopted by the last group of the path and
leaves every other link alone (`Adopted`, `ChildLinked`): `nextScaffoldPart` writes the `nextsib` of
one node, and that this is a sibling and not a node of an inner group is what the invariant is needed for.
A group that closes leaves the path with its tree complete.  `build_model` then follows the
links (`MembersLinked`) and meets every node's tree (`ModelBuilt`, an induction from the
last node to the first, as members come after their parents).  `TokensRead` goes through the roles and relates each
to the reference's step; its hypotheses are the invariants of the two modules before.

`InputBufferProofs` proves for every size of the context, of the first buffer and of the integers,
and any number of calls, bytes and resets:

* `BufferTypeCorrect`, `InputHeld`, `RoomIsThere`, `ContextIsKept`, `EventsAreLocated` - the five invariants of
  the run: the pointers are in order; the buffer holds the last bytes handed over, in order, through
  every move; there is the room that was given; the context is kept; every event lies in the
  buffer of now and its index in the document is what `XML_GetCurrentByteIndex` says;
* `RefinesByteStream` - `Spec => ImplementsByteStream`: seen from the processors nothing happens but
  that bytes are accepted and consumed in order.

The invariants hold each other up.  `ContextKept` gives the bound that makes a move go to the left;
a move keeps `BufferHoldsInput` because `m_parseEndByteIndex` counts from the same byte as
`m_bufferEnd` (`Counted`); events are located because a running or suspended call has
`m_parseEndPtr` = `m_bufferEnd` and otherwise compares pointers saved together
(`EventsCompared`), which is what setting them to null at a move (2052) is for.  The inductive
invariant is the seven together.  The refinement needs it: an accepted byte is the next one only because memory is indexed
by `m_parseEndByteIndex`.

`NamespacesProofs` proves for every vocabulary of prefixes, names, attributes and defaults, every
hash function and length, any number of tags, elements in one another, external entities and resets:

* `Typing` - every list, chain and prefix refers to a `BINDING` there is; a buffer holds its URI; the
  table of expanded names has the size its power says; between two tags no attribute is marked
  as seen, so that no later tag is refused for a duplicate it has not;
* `OpenNamesStayLive` - `Spec => []OpenNamesLive`: the name of an open element is in the buffer its
  `BINDING` has now, with room to be written again, whichever inner elements moved the buffer;
* `BindingsStay` - `Spec => BindingsConserved`: a `BINDING` is on one list, and no step loses one
  but those of finding 11.

The inductive invariant (`IndInv`) says the same of the parser at work and of those that wait for it
in their handlers (`ParserInv`): a `BINDING` is on one list (`OneList`), and as long as there was no
error a prefix is bound by a `BINDING` of an element around (`PrefixesInScope`), what that shadows is
of the scope around it and has its prefix (`ShadowsInScope`), and the name of an element is in the buffer of
a `BINDING` in its scope (`NamesPlaced`).  The first makes an open element's buffer one that is not on
`m_freeBindingList`; the second is what `b->prefix->binding = b->prevPrefixBinding` (3042) needs to
lead back to a `BINDING` in scope when the element is closed; the last finds the names to be moved with
a buffer (3418): they are at its old address, and no other name is.  After an error they do not hold: a
`BINDING` on a free `TAG` is still bound to its prefix.  `OneList` does, which is what the reset relies on.

A loop of the code is a recursive function in the model, and one lemma for each (`UnboundBy`,
`CollectedBy`, `ExpandedBy`, `SetContextBy`) says that a set of results the first round starts in and
no round leaves has the last one too.  `FrameInv` is that for the rounds of `storeAtts`: the
invariant, with the bindings of the tag being read as a list of their own.  Assumed is that the constants
are of their types, that `xml` is a prefix, and that `InitAttsVersion` is not 0 (`NamespacesAssumption`).

Model-checked only: all of `TokenStream` (its scanners are recursive operators, which a module
with a theorem cannot reach), `ImplementsScopes` (section 6),
`ImplementsReader` (the reference reads the document with its entities expanded in place), the liveness
properties `CallReturns` and `Decided`, and `AbortReported` (true only for the documents of its run:
section 5, 3).

## 5. Where the code departs from its documentation

With a run that shows it:

1. `FindRawNames` - `internalEntityProcessor` ends with `doContent` (5280), not
   `contentProcessor`, so `storeRawNames` does not run for the elements that call opens and
   their names still lie in the buffer "about to be discarded" (2411).
2. `FindNested` - a handler that suspends inside an entity nested in another one: the resume
   finishes the inner entity and goes on with the document (5273); the rest of the outer
   entity is lost and the document accepted.
3. `FindAbort` - an abort in the handler of `<![CDATA[` when no more text is available is
   answered with `XML_STATUS_OK` (1930).
4. `FindEmptyFinal` - the final call with no data can return `XML_STATUS_SUSPENDED`, which
   "cannot occur" (1769).

Found with `XmlParser` by giving a run other documents (those of `AnyDocs`) and
`AcceptedIsComplete`, or the converse that a refused document has that error:

5. the inner reference is the last token of the outer entity: both records are unlinked
   (5216), the resume fails with `XML_ERROR_UNEXPECTED_STATE`, and the inner record is lost;
6. an entity that opens an element it does not close is accepted when the handler of its last
   token suspends: the loop's end (3013) skips the comparison of levels;
7. suspension in a CDATA section of an entity: the rest of the section is read as content; if the
   handler of that rest opens a section and suspends in it again (7b), the resume ends in
   `cdataSectionProcessor`, which knows nothing of entities, and the entity's record stays open for ever;
8. after a resume inside an entity, the parser of an external general entity runs
   `contentProcessor` (5278) with `startTagLevel` 0 and asks for a document element;
9. `cdataSectionProcessor` goes on with the content after the section although its handler
   suspended the parser (3568), and may enter an entity;
10. a carriage return at the end of the last buffer: the handler's abort is not looked at.

Met while the other modules were written, and stated there as exceptions of a property:

11. the bindings of an element whose end tag does not match stay on its `TAG` (2839); after
    `XML_ParserReset` the next start tag takes the `TAG` and sets `bindings` to null (2733), and they
    are never freed.  `BindingsConserved` excepts it in the step of a start tag and nothing else;
12. `XML_GetBuffer` says it avoids signed overflow (1962) and tests for it, but adds `keep` after the
    test (1974); `InputBuffer` reaches it (`Overflows`);
13. the comment at 5949 takes a prefix without a binding in `getContext` for impossible; it is what
    every prefix has whose element has been closed;
14. the scanners of names look a two-byte character up without checking its second byte, so that a
    line end may be read as part of a name (`LineEndsNormalized` excepts names);
15. `ignoreSectionTok` does not find the end of a section in `]]]>`: after two `]` that are not
    followed by `>` it goes on behind the second one;
16. `a:` at the end of the last buffer is an incomplete token for `prologTok`, elsewhere a name token
    (`NMTOKEN`);
17. character data in front of a refused `]]>` is reported or not, depending on where the text was
    cut (`BeforeData` in `CutIndependent`).

## 6. Plan, and what is not modelled

Done: the life cycle with content and internal entities; prolog roles and element declarations;
the tokenizer; the input buffer; namespaces, with the context of external general entities.

Next, in order of importance:

1. the proof of `ImplementsScopes`: `NamespacesProofs` has that the scopes hold the right bindings, not
   yet that a name is refused as a duplicate only when it is one (the search in `m_nsAtts`);
2. parameter entities: `betweenDecl` and `keepProcessing`, `entityValueProcessor`, and the child
   parser that shares the DTD and with it the scaffold of an element declaration.

Not modelled:

* **entity, attribute list and notation declarations**, `DOCTYPE` and the foreign DTD: `doProlog` there fills
  records in one pass, a case per role.  Their tokens and roles are in `Tokenizer` and `PrologRoles`; what
  they fill (`ENTITY`, default attributes) is a constant of `XmlParser` and `Namespaces`;
* **parameter entities** and the DTD shared with their parsers: see 2;
* **hash tables and string pools**: data structures of one thread, that the models use as the maps
  and strings they stand for; what could be said of them is arithmetic of 32-bit sizes.  Of
  `siphash.h` the models need only that it is a function;
* **encodings** other than UTF-8, conversion, `XML_SetEncoding`, unknown encodings: tables;
* **allocation failure** outside of `ContentModel`;
* **the Swift wrapper**: its methods pass one call on each, its closures one callback; `close` is
  `XML_ParserFree`, after which there is no state to speak of.  Its hazards are in `PROJECT.json`
  without properties;
* `XML_GetInputContext`, setters and getters, memory suites, tables (`asciitab.h` and the like).
