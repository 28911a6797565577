----------------------------- MODULE ExchangeMC -----------------------------
(***************************************************************************)
(* The exchange for TLC: the URIs and files of a small site.               *)
(***************************************************************************)
EXTENDS Exchange, TLC

Form(up, isCgi, slash, path, query) ==
    [up |-> up, cgi |-> isCgi, slash |-> slash, path |-> path, query |-> query]

(* A page longer than a line buffer, a directory whose home page is empty, *)
(* a program with arguments, and a program named with "..".                *)
MCUriForm ==
    "page" :> Form(FALSE, FALSE, FALSE, "page", "")
        @@ "dir/" :> Form(FALSE, FALSE, TRUE, "dir/", "")
        @@ "out.cgi?1" :> Form(FALSE, TRUE, FALSE, "out.cgi", "1")
        @@ "../out.cgi" :> Form(TRUE, TRUE, FALSE, "../out.cgi", "")

File(path, home) == [path |-> path, query |-> "", home |-> home]

MCContent ==
    File("page", FALSE) :> <<"a", "b", "c", "d">>
        @@ File("dir/", TRUE) :> << >>
        @@ File("out.cgi", FALSE) :> <<"Content-Length", LF, CR, LF, "a">>
        @@ File("../out.cgi", FALSE) :> <<"a">>
        @@ HomePage :> <<"a">>

MCFiles == DOMAIN MCContent

(* The home page of the site may not be read. *)
MCMode ==
    [f \in MCFiles |->
        IF f = HomePage THEN {"reg"}
        ELSE IF f.home \/ f.path = "page" THEN {"reg", "read"}
        ELSE {"reg", "read", "exec"}]

(* Every URI with GET, and one request with a method that is refused. *)
MCRequests == ({"GET"} \X Uris) \cup {<<"POST", "page">>}

MCLeftover == {<<CR, LF>>, <<"GET", "page", LF>>}

MCSockBuf == "req" :> 4 @@ "rsp" :> 3

MCSymbols == Words \cup DOMAIN MCUriForm
                 \cup {CR, LF, "GET", "POST", "a", "b", "c", "d"}
=============================================================================
