----------------------------- MODULE Resources -----------------------------
(***************************************************************************)
(* The resources of two.c: the array server_resources, how an application  *)
(* registers them and how a request finds them.  Methods and content types *)
(* are sequences of characters, as the code compares the beginnings of     *)
(* them; a path is opaque here.                                            *)
(***************************************************************************)
EXTENDS Integers, Sequences

CONSTANTS
  MaxResources,   \* TWO_MAX_RESOURCES
  GET,            \* the method that is supported
  Methods,        \* methods that an application registers
  Paths,          \* paths shorter than TWO_MAX_PATH_SIZE
  ValidPaths,     \* the ones that begin with '/'
  ContentTypes,   \* content types that an application registers
  AllowedTypes,   \* allowed_content_types: a sequence
  Handlers,       \* handlers: two_resource_handler_t
  Calls           \* the arguments of the application's calls

ASSUME ResourcesAssumption ==
  /\ MaxResources \in Nat
  /\ GET \in Seq(Nat) /\ Methods \subseteq Seq(Nat)
  /\ ValidPaths \subseteq Paths
  /\ Calls \subseteq Methods \X Paths \X ContentTypes \X Handlers
  /\ ContentTypes \subseteq Seq(Nat) /\ AllowedTypes \in Seq(Seq(Nat))

VARIABLES
  resources,   \* server_resources and server_resources_size
  registered,  \* history: the type and handler in effect for each path
  others       \* history: the paths accepted under a method other than GET

Unregistered == [type |-> "none"]

\* Whether m begins with the characters of p (strncmp with the length of p).
Begins(m, p) == Len(p) <= Len(m) /\ SubSeq(m, 1, Len(p)) = p

http_has_method_support(m) == Begins(m, GET)

\* The allowed type that a content type begins with, or <<>>.
content_type_allowed(ct) ==
  LET found == {i \in 1 .. Len(AllowedTypes) : Begins(ct, AllowedTypes[i])}
  IN  IF found = {} THEN <<>>
      ELSE AllowedTypes[CHOOSE i \in found : \A j \in found : i <= j]

\* The places of the resources that the code takes for this method and path.
Found(rs, m, path) == {i \in 1 .. Len(rs) : rs[i].path = path /\ Begins(m, rs[i].method)}

\* The place of a resource, or 0.
find_resource(rs, m, path) ==
  IF Found(rs, m, path) = {} THEN 0
  ELSE CHOOSE i \in Found(rs, m, path) : \A j \in Found(rs, m, path) : i <= j

Same(rs, m, path) == {i \in 1 .. Len(rs) : rs[i].path = path /\ rs[i].method = m}

\* What the checks before the search let pass.
Acceptable(m, path, ct) ==
  http_has_method_support(m) /\ path \in ValidPaths /\ content_type_allowed(ct) # <<>>

Resource(path, ct, handler) ==
  [path |-> path, method |-> GET, type |-> content_type_allowed(ct), handler |-> handler]

\* A registration that is accepted.  Under GET it is the one in effect; under
\* another method that begins with GET, only if it is the first for its path.
Register(m, path, ct, handler) ==
  /\ registered' =
       IF m = GET \/ registered[path] = Unregistered
       THEN [registered EXCEPT ![path] = [type |-> content_type_allowed(ct),
                                          handler |-> handler]]
       ELSE registered
  /\ others' = IF m = GET THEN others ELSE others \cup {path}

\* Variant: the last resource is replaced.
Replace_last(m, path, ct, handler) ==
  /\ Acceptable(m, path, ct) /\ Same(resources, m, path) # {}
  /\ resources' = [resources EXCEPT ![Len(resources)].type = content_type_allowed(ct),
                                    ![Len(resources)].handler = handler]
  /\ Register(m, path, ct, handler)

\* two_register_resource, with a path and a method that are there.  The method
\* is stored as GET, and compared as a whole: another one that begins with GET
\* is never found here, not even when it is registered again.
Replace(m, path, ct, handler) ==
  /\ Acceptable(m, path, ct)
  /\ \E i \in Same(resources, m, path) :
       /\ \A j \in Same(resources, m, path) : i <= j
       /\ resources' = [resources EXCEPT ![i].type = content_type_allowed(ct),
                                         ![i].handler = handler]
  /\ Register(m, path, ct, handler)

\* two_register_resource, with ones that are not.
Add(m, path, ct, handler) ==
  /\ Acceptable(m, path, ct) /\ Same(resources, m, path) = {}
  /\ Len(resources) < MaxResources
  /\ resources' = Append(resources, Resource(path, ct, handler))
  /\ Register(m, path, ct, handler)

\* two_register_resource, if it returns -1.
Refuse(m, path, ct) ==
  /\ \/ ~Acceptable(m, path, ct)
     \/ Same(resources, m, path) = {} /\ Len(resources) >= MaxResources
  /\ UNCHANGED <<resources, registered, others>>

two_register_resource(m, path, ct, handler) ==
  \/ Replace(m, path, ct, handler)
  \/ Add(m, path, ct, handler)
  \/ Refuse(m, path, ct)

RInit ==
  /\ resources = <<>>
  /\ registered = [path \in Paths |-> Unregistered]
  /\ others = {}

RNext == \E c \in Calls : two_register_resource(c[1], c[2], c[3], c[4])

RSpec == RInit /\ [][RNext]_<<resources, registered, others>>

-----------------------------------------------------------------------------
\* What find_resource finds for GET and a path is what was registered last under
\* GET for it or, if that never happened, first under another method that
\* begins with GET (which two_register_resource takes for GET when it checks and
\* stores it, and not when it searches for it), and nothing if nothing was.  A
\* registration that is refused changes nothing.
LastRegistered ==
  \A path \in Paths :
    LET i == find_resource(resources, GET, path)
    IN  registered[path]
          = IF i = 0 THEN Unregistered
            ELSE [type |-> resources[i].type, handler |-> resources[i].handler]
=============================================================================
