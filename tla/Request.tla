------------------------------ MODULE Request -------------------------------
(***************************************************************************)
(* The decisions and the texts of request.c: which file a URI names, when  *)
(* a file may be served, and the pieces of each response, one per call of  *)
(* Rio_writen.  A header line is a symbol and LF; an empty line is CR LF.  *)
(***************************************************************************)
EXTENDS Rio

CONSTANTS
    Uris,     \* the URIs requested, each a symbol of the stream
    UriForm,  \* what requestParseURI looks for in each of them
    Files,    \* the names of files it can form
    Mode,     \* the st_mode of each file: a set of "reg", "read", "exec"
    Content   \* the bytes of each file; for a program, what it prints

Words == {"501", "404", "403", "200 OK", "Server", "Content-Type",
          "Content-Length", "Stat", "page", "log", "host"}

ASSUME WordsAssumption == Words \subseteq Symbols

ASSUME UrisAssumption == Uris \subseteq Symbols /\ DOMAIN UriForm = Uris

ASSUME ContentAssumption ==
    /\ Content \in [Files -> Seq(Symbols)]
    /\ \A f \in Files : "exec" \in Mode[f] => Content[f] # << >>

HomePage == [path |-> "", query |-> "", home |-> TRUE]

(* requestParseURI: a URI with ".." is answered with the home page; one    *)
(* with "cgi" names a program, cut off at its "?"; any other names a file, *)
(* "?" and all, and home.html is added after a final "/".                  *)
requestParseURI(uri) ==
    LET u == UriForm[uri] IN
    IF u.up THEN [static |-> TRUE, file |-> HomePage]
    ELSE IF ~u.cgi
    THEN [static |-> TRUE,
          file   |-> [path |-> u.path, query |-> u.query, home |-> u.slash]]
    ELSE [static |-> FALSE,
          file   |-> [path |-> u.path, query |-> "", home |-> FALSE]]

ASSUME FilesAssumption == \A uri \in Uris : requestParseURI(uri).file \in Files

(* The tests on st_mode, for a page and for a program. *)
Served(parsed) ==
    {"reg", IF parsed.static THEN "read" ELSE "exec"} \subseteq Mode[parsed.file]

(* The five writes of requestError. *)
requestError(errnum) ==
    << <<errnum, LF>>, <<"Content-Type", LF>>, <<"Content-Length", LF>>,
       <<"Stat", LF, CR, LF>>, <<"page">> >>

(* The three writes of requestServeStatic. *)
requestServeStatic(file) ==
    << <<"200 OK", LF, "Content-Length", LF>>, <<"Stat", LF, CR, LF>>,
       Content[file] >>

(* The two writes of requestServeDynamic: the program ends the headers. *)
requestServeDynamic == << <<"200 OK", LF>>, <<"Stat", LF>> >>

(* clientSend, for any method. *)
clientSend(method, uri) == <<method, uri, LF, "host", LF, CR, LF>>
=============================================================================
