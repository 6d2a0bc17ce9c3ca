-------------------------------- MODULE Session ---------------------------------
(* cpr's Session: one curl handle used for one request after another, whose    *)
(* options stay set from call to call, and the chain of interceptors, each of  *)
(* which may hand the request on, make other requests or do so repeatedly.     *)
(* Options that only pass a value through to the handle are left out, and so   *)
(* is where the response goes, on which no request depends.                    *)
EXTENDS Integers, Sequences, SequencesExt

CONSTANTS Interceptors,  \* bound: how many are added
          Verbs          \* the methods called, of "GET", "HEAD", "POST", "PUT", ...

End  == 0      \* interceptors_.end()
Unset == "none"

ASSUME SessionAssumption ==
    /\ Interceptors \in Nat
    /\ Verbs \intersect {Unset, "DOWNLOAD", "LENGTH"} = {}

VARIABLES
    content,       \* content_: Unset, "body" (also payload, view) or "multipart"
    readcb,        \* is there a read callback?
    handle,        \* the curl handle: the options that Session sets
    interceptors,  \* how many have been added
    current, first,    \* current_interceptor_ and first_interceptor_
    chain,         \* the intercept() calls that are open, the innermost last
    asked,         \* history: the call that interceptors hand on; has one meddled with it?
    covered,       \* history: has a form been set over a body that is not removed since?
    orderly,       \* history: has every interceptor done its part, see AllAreAsked?
    sent           \* history: the request the last step put on the wire

sessionVars == <<content, readcb, handle, interceptors, current, first, chain,
                 asked, covered, orderly, sent>>
optionVars == <<content, readcb, covered>>
chainVars  == <<interceptors, current, first, chain, orderly>>

-------------------------------------------------------------------------------
(* libcurl: the effect of an option on the handle.  Data to post or a form     *)
(* makes the request a POST, whatever it was; CUSTOMREQUEST renames it.        *)
HTTPGET(h) == [h EXCEPT !.method = "GET", !.nobody = FALSE]
NOBODY(h, on) ==
    [h EXCEPT !.nobody = on, !.method = IF on THEN "HEAD" ELSE IF @ = "HEAD" THEN "GET" ELSE @]
CUSTOM(h, name)     == [h EXCEPT !.custom = name]
POSTFIELDS(h, data) == [h EXCEPT !.method = "POST", !.fields = data]
POSTFIELDSIZE(h, n) == [h EXCEPT !.size = n]
MIMEPOST(h)         == [h EXCEPT !.method = "MIME", !.nobody = FALSE, !.mime = TRUE]

(* The data of a POST: without any, the read callback is asked, libcurl's own  *)
(* one reading stdin; a size that was set for other data sends what lies in    *)
(* memory behind these, or cuts them off.                                      *)
Posted(h) == IF h.fields = Unset THEN "read"
             ELSE IF h.size \in {Unset, h.fields} THEN h.fields ELSE "junk"

(* What goes on the wire.                                                      *)
Wire(h) ==
    [name |-> IF h.custom # Unset THEN h.custom
              ELSE IF h.nobody THEN "HEAD"
              ELSE IF h.method \in {"POST", "MIME"} THEN "POST" ELSE "GET",
     body |-> IF h.method = "POST" THEN Posted(h)
              ELSE IF h.method = "MIME" /\ h.mime THEN "multipart" ELSE Unset]

-------------------------------------------------------------------------------
AskedFor(v) == [verb |-> v, meddled |-> FALSE]
NoCall == AskedFor(Unset)
NoRequest == [asked |-> NoCall, name |-> Unset, body |-> Unset,
              held |-> Unset, through |-> <<>>, added |-> 0]

SessionInit ==
    /\ content = Unset /\ readcb = FALSE
    /\ handle = [method |-> "GET", nobody |-> FALSE, custom |-> Unset,
                 fields |-> Unset, size |-> Unset, mime |-> FALSE]
    /\ interceptors = 0 /\ current = End /\ first = End /\ chain = <<>>
    /\ asked = NoCall /\ covered = FALSE /\ orderly = TRUE
    /\ sent = NoRequest

hasBodyOrPayload == content = "body"

prepareBodyPayloadOrMultipart(h) ==
    IF content = "body" THEN POSTFIELDS(POSTFIELDSIZE(h, "body"), "body")
    ELSE IF content = "multipart" THEN MIMEPOST(h) ELSE h

(* Of the options set here only the content concerns the request.              *)
prepareCommon(h) == prepareBodyPayloadOrMultipart(h)

PrepareGet(h) == IF hasBodyOrPayload THEN CUSTOM(NOBODY(h, FALSE), "GET")
                 ELSE HTTPGET(CUSTOM(NOBODY(h, FALSE), Unset))

PreparePost(h) ==
    IF hasBodyOrPayload THEN CUSTOM(NOBODY(h, FALSE), Unset)
    ELSE CUSTOM(POSTFIELDS(NOBODY(h, FALSE), IF readcb THEN Unset ELSE "empty"), "POST")

PreparePut(h) ==
    LET g == NOBODY(h, FALSE)
    IN  CUSTOM(IF ~hasBodyOrPayload /\ readcb THEN POSTFIELDS(g, Unset) ELSE g, "PUT")

Prepare(verb, h) ==
    prepareCommon(CASE verb = "GET"  -> PrepareGet(h)
                    [] verb = "HEAD" -> CUSTOM(NOBODY(h, TRUE), Unset)
                    [] verb = "POST" -> PreparePost(h)
                    [] verb = "PUT"  -> PreparePut(h)
                    [] OTHER         -> CUSTOM(NOBODY(h, FALSE), verb))

-------------------------------------------------------------------------------
(* The options, set by the user or by an interceptor before it goes on.        *)

(* What an interceptor sets is prepared for once it hands the request on.      *)
Meddles == asked' = [asked EXCEPT !.meddled = chain # <<>>]

SetContent(kind) ==
    /\ content' = kind /\ Meddles
    /\ covered' = (kind = "multipart" /\ (covered \/ content = "body"))
    /\ UNCHANGED <<readcb, handle, chainVars>>
    /\ sent' = NoRequest

KeepsSize(h) == POSTFIELDS(h, Unset)                        \* slip: only the data go
Emptied(h)   == POSTFIELDS(POSTFIELDSIZE(h, Unset), Unset)

RemoveContent ==
    /\ handle' = IF content = "body" THEN Emptied(handle)
                 ELSE IF content = "multipart" THEN [handle EXCEPT !.mime = FALSE]
                 ELSE handle
    /\ content' = Unset /\ Meddles
    /\ UNCHANGED <<readcb, chainVars, covered>>
    /\ sent' = NoRequest

(* With a size of its own, or none; libcurl drops copied data that are shorter.*)
SetReadCallback ==
    /\ readcb' = TRUE
    /\ \E n \in {Unset, "read"}, data \in {handle.fields, Unset} :
          /\ data = handle.fields \/ (data = Unset /\ handle.fields = "body" /\ n = "read")
          /\ handle' = [POSTFIELDSIZE(handle, n) EXCEPT !.fields = data]
    /\ Meddles /\ UNCHANGED <<content, chainVars, covered>>
    /\ sent' = NoRequest

(* Asserted: only where no interceptor is the current one; that is so inside   *)
(* an interceptor too, once its request has been performed.                    *)
AddInterceptor ==
    /\ interceptors < Interceptors /\ current = End
    /\ interceptors' = interceptors + 1 /\ first' = 1
    /\ orderly' = (orderly /\ chain = <<>>)
    /\ UNCHANGED <<optionVars, handle, current, chain, asked>>
    /\ sent' = NoRequest

-------------------------------------------------------------------------------
(* The requests.  intercept() asks the next interceptor; after the last one,   *)
(* the request is performed.                                                   *)
After(i) == IF i = interceptors THEN End ELSE i + 1

Upcoming == IF current = End THEN first ELSE After(current)

Through == [i \in DOMAIN chain |-> chain[i].icpt]

Request(call) ==
    /\ current' = Upcoming
    /\ LET open == IF chain = <<>> THEN <<>>
                   ELSE [chain EXCEPT ![Len(chain)].called = TRUE]
       IN  IF current' # End
           THEN /\ first' = After(current')
                /\ chain' = Append(open, [icpt |-> current', called |-> FALSE])
                /\ sent' = NoRequest
           ELSE /\ chain' = open
                /\ sent' = [asked |-> call, name |-> Wire(handle').name,
                            body |-> Wire(handle').body,
                            held |-> content, through |-> Through, added |-> interceptors]
                /\ UNCHANGED first
    /\ asked' = IF chain' = <<>> THEN NoCall ELSE call
    /\ UNCHANGED <<interceptors, orderly>>

(* Get, Post, ...: by the user, or by an interceptor that changes the method.  *)
Call(verb) ==
    /\ handle' = Prepare(verb, handle)
    /\ Request(AskedFor(verb)) /\ UNCHANGED optionVars

(* It prepares no content (prepareCommonDownload).                             *)
Download ==
    /\ handle' = HTTPGET(CUSTOM(NOBODY(handle, FALSE), Unset))
    /\ Request(AskedFor("DOWNLOAD")) /\ UNCHANGED optionVars

(* An interceptor hands the request on.                                        *)
proceed ==
    /\ chain # <<>>
    /\ handle' = prepareCommon(handle)
    /\ Request(asked) /\ UNCHANGED optionVars

NotRestored == first                                    \* slip: first_interceptor_ stays
Restored == Last(chain).icpt

(* It need not have handed the request on: it may answer by itself.            *)
interceptReturns ==
    /\ chain # <<>>
    /\ first' = Restored /\ chain' = Front(chain)
    /\ asked' = IF chain' = <<>> THEN NoCall ELSE asked
    /\ orderly' = (orderly /\ Last(chain).called)
    /\ UNCHANGED <<optionVars, handle, interceptors, current>>
    /\ sent' = NoRequest

(* It throws, up to the caller or to an interceptor that catches; nothing is   *)
(* restored.                                                                   *)
interceptThrows ==
    /\ chain # <<>> /\ orderly' = FALSE
    /\ \E n \in 0..Len(chain) - 1 : chain' = SubSeq(chain, 1, n)
    /\ asked' = IF chain' = <<>> THEN NoCall ELSE asked
    /\ UNCHANGED <<optionVars, handle, interceptors, current, first>>
    /\ sent' = NoRequest

(* It goes to the server itself, past the interceptors.                        *)
GetDownloadFileLength ==
    /\ handle' = NOBODY(HTTPGET(handle), TRUE)
    /\ sent' = [asked |-> AskedFor("LENGTH"), name |-> Wire(handle').name,
                body |-> Wire(handle').body, held |-> content,
                through |-> <<>>, added |-> 0]
    /\ Meddles /\ UNCHANGED <<optionVars, chainVars>>

SessionNext ==
    \/ \E kind \in {"body", "multipart"} : SetContent(kind)
    \/ RemoveContent \/ SetReadCallback \/ AddInterceptor
    \/ \E verb \in Verbs : Call(verb)
    \/ Download \/ proceed \/ interceptReturns \/ interceptThrows \/ GetDownloadFileLength

SessionSpec == SessionInit /\ [][SessionNext]_sessionVars

-------------------------------------------------------------------------------
(* current_ and first_interceptor_ never point past the list, for open calls   *)
(* that add, ask, answer and throw as they like (session.cpp:936-979).         *)
SessionTypeOK ==
    /\ content \in {Unset, "body", "multipart"} /\ readcb \in BOOLEAN
    /\ handle \in [method : {"GET", "HEAD", "POST", "MIME"}, nobody : BOOLEAN,
                   custom : {Unset, "GET", "POST", "PUT"} \union Verbs,
                   fields : {Unset, "body", "empty"}, size : {Unset, "body", "read"},
                   mime : BOOLEAN]
    /\ interceptors \in 0..Interceptors
    /\ current \in 0..interceptors /\ first \in 0..interceptors
    /\ chain \in Seq([icpt : 1..interceptors, called : BOOLEAN])
    /\ asked \in [verb : {Unset, "DOWNLOAD"} \union Verbs, meddled : BOOLEAN]
    /\ covered \in BOOLEAN /\ orderly \in BOOLEAN

(* Whatever was called on the handle before, a request carries the method that *)
(* was called.  The code's exceptions: a form makes a POST of GET and HEAD;    *)
(* and those two and POST become another method if an interceptor sets or      *)
(* removes content, or asks for the length, before a proceed() of its own.     *)
MethodAsAsked ==
    sent.asked.verb \in Verbs =>
        \/ sent.name = sent.asked.verb
        \/ /\ sent.held = "multipart" \/ sent.asked.meddled
           /\ sent.asked.verb \in {"GET", "HEAD"}
        \/ sent.asked.meddled /\ sent.asked.verb = "POST"

(* And it carries the content the session holds or, if it holds none, nothing  *)
(* or what the read callback gives.  The code's exceptions, all of a session   *)
(* that holds none:  a body that a form was set over stays on the handle, as   *)
(* data or as their size; a read callback's size stays with the data of an     *)
(* earlier request; after a removed body the handle still posts, and asks      *)
(* libcurl's own read callback.  Each spares the methods that set the handle   *)
(* right themselves, if no interceptor meddles with it afterwards.             *)
Spared(verbs) == sent.asked.verb \in verbs /\ ~sent.asked.meddled

BodyAsAsked ==
    sent.asked.verb \in Verbs =>
        \/ sent.body = sent.held
        \/ /\ sent.held = Unset
           /\ \/ sent.body = "empty" \/ (sent.body = "read" /\ readcb)
              \/ covered /\ ~Spared({"GET", "HEAD"})
              \/ readcb /\ ~Spared({"GET", "HEAD", "POST", "PUT"})
              \/ sent.body = "read" /\ ~Spared({"GET", "HEAD", "POST"})

(* What RemoveContent's comment says: once the content is removed, no request  *)
(* has a body (session.cpp lines 287 and 297).                                 *)
BodyAsHeld == sent.body \in {"body", "junk"} => sent.held = "body"

(* A handle that served any calls before, nested, repeated, cut off by an      *)
(* exception, sends what the next one asks for (session.cpp:836-901, 982-1044).*)
SendsWhatWasAsked == MethodAsAsked /\ BodyAsAsked

(* No request passes by an interceptor, and each comes to them in their order, *)
(* as long as every interceptor so far has handed its requests on, has thrown  *)
(* nothing and added no other; after that requests do pass some by, although   *)
(* session.h:291 calls first_interceptor_ "where to start with each repeated   *)
(* request" (session.cpp:948-980).                                             *)
AllAreAsked == orderly => sent.through = [i \in 1..sent.added |-> i]
===============================================================================
