----------------------------- MODULE FsimWget -----------------------------
(***************************************************************************)
(* The fdo.wget module: WgetCommand of the owner service names a URL, Wget *)
(* of the device fetches it in a goroutine that reads the fields of the    *)
(* module while the exchange goes on and may reset them.                   *)
(***************************************************************************)
EXTENDS ServiceInfoModules

CONSTANTS
    Urls,                   \* a URL stands for its name and for its contents
    Bad,                    \* other contents, of another length
    TimeoutSet              \* Wget.Timeout is not zero

VARIABLES
    wgOwner,                \* WgetCommand
    wget,                   \* Wget; cur is the fetch resultCh is of, 0 for none
    fetch,                  \* the goroutines
    files                   \* name: contents placed under it

wgetVars == <<wgOwner, wget, fetch, files>>

\* URL and what to check the contents by are chosen when the module starts.
NewWget == [url |-> Nil, check |-> "none", sent |-> FALSE, done |-> FALSE]

\* Wget.reset cancels the fetch (Cancelled) and keeps the timeout.
ResetWget == [wget EXCEPT !.name = Nil, !.sha = Nil, !.cur = 0]

WgetInit ==
    /\ wgOwner = NewWget
    /\ wget = [name |-> Nil, sha |-> Nil, cur |-> 0, timeout |-> TimeoutSet]
    /\ fetch = <<>>
    /\ files = [u \in Urls |-> Nil]

------------------------------------------------------------------------------
(* Device: Wget.                                                             *)

WgetActive ==
    /\ handleActive("wget")
    /\ wget' = IF active["wget"] THEN wget ELSE ResetWget
    /\ UNCHANGED <<wgOwner, fetch, files>>

WgetParameter ==
    /\ \/ /\ Received("wget", "sha-384")
          /\ wget' = [wget EXCEPT !.sha = toDevice[1].val]
       \/ /\ Received("wget", "name")
          /\ wget' = [wget EXCEPT !.name = toDevice[1].val]
    /\ Handled(<<>>)
    /\ UNCHANGED <<wgOwner, fetch, files>>

\* A zero timeout is replaced by the default in the module, but the context of
\* this fetch is made with the zero: it has expired.
WgetUrl ==
    /\ Received("wget", "url")
    /\ Handled(<<>>)
    /\ fetch' = Append(fetch, [st |-> "get", url |-> toDevice[1].val, body |-> Nil,
                               call |-> call, expired |-> ~wget.timeout])
    /\ wget' = [wget EXCEPT !.cur = Len(fetch) + 1, !.timeout = TRUE]
    /\ UNCHANGED <<wgOwner, files>>

\* The context of a fetch ends with its timeout, with reset and with the exchange.
Cancelled(i) == fetch[i].expired \/ ~Running \/ wget.cur # i

FetchIs(i, st) == fetch' = [fetch EXCEPT ![i].st = st]

\* download, one goroutine: the request, which may fail, and the copy to a
\* temporary file;
FetchGet(i) ==
    /\ fetch[i].st = "get"
    /\ \/ /\ ~Cancelled(i)
          /\ \E body \in {fetch[i].url, Bad} :
                fetch' = [fetch EXCEPT ![i].st = "got", ![i].body = body]
       \/ FetchIs(i, "err")
    /\ UNCHANGED <<exchangeVars, wgOwner, wget, files>>

\* the checksum, if there is one by now;
FetchCheck(i) ==
    /\ fetch[i].st = "got"
    /\ FetchIs(i, IF wget.sha \in {Nil, fetch[i].body} THEN "checked" ELSE "err")
    /\ UNCHANGED <<exchangeVars, wgOwner, wget, files>>

\* and the rename, to the name the module has by now.
FetchRename(i) ==
    /\ fetch[i].st = "checked"
    /\ \/ /\ wget.name # Nil
          /\ files' = [files EXCEPT ![wget.name] = fetch[i].body]
          /\ FetchIs(i, "ok")
       \/ /\ FetchIs(i, "err")           \* no name, or it cannot be renamed
          /\ UNCHANGED files
    /\ UNCHANGED <<exchangeVars, wgOwner, wget>>

\* The result is taken from the goroutine that waits on resultCh, if any.
WgetYield ==
    /\ Yields("wget")
    /\ \/ /\ wget.cur # 0 /\ fetch[wget.cur].st = "ok"
          /\ Yielded(<<KV("wget", "done", fetch[wget.cur].body)>>)
          /\ FetchIs(wget.cur, "over") /\ wget' = ResetWget
       \/ /\ wget.cur # 0 /\ fetch[wget.cur].st = "err"
          /\ Yielded(<<KV("wget", "error", Nil)>>)
          /\ FetchIs(wget.cur, "over") /\ wget' = ResetWget
       \/ /\ wget.cur # 0 => fetch[wget.cur].st \in {"get", "got", "checked"}
          /\ Yielded(<<>>)
          /\ UNCHANGED <<fetch, wget>>
    /\ UNCHANGED <<wgOwner, files>>

------------------------------------------------------------------------------
(* Owner: WgetCommand.                                                       *)

\* done carries the length of what was fetched.
WgetHandleInfo ==
    /\ \/ /\ HandleInfo("wget", "active")
          /\ InfoHandled /\ UNCHANGED wgOwner
       \/ /\ HandleInfo("wget", "error")
          /\ OwnerFails /\ UNCHANGED wgOwner
       \/ /\ HandleInfo("wget", "done")
          /\ wgOwner.check = "length" /\ toOwner[1].val = Bad
          /\ OwnerFails /\ UNCHANGED wgOwner
       \/ /\ HandleInfo("wget", "done")
          /\ ~(wgOwner.check = "length" /\ toOwner[1].val = Bad)
          /\ InfoHandled /\ wgOwner' = [wgOwner EXCEPT !.done = TRUE]
    /\ UNCHANGED <<wget, fetch, files>>

WgetRequest ==
    \E u \in Urls, check \in {"none", "length", "checksum"} :
        /\ Produced(<<KV("wget", "active", TRUE)>>
                    \o (IF check = "checksum" THEN <<KV("wget", "sha-384", u)>> ELSE <<>>)
                    \o <<KV("wget", "name", u), KV("wget", "url", u)>>, FALSE, FALSE)
        /\ wgOwner' = [wgOwner EXCEPT !.sent = TRUE, !.url = u, !.check = check]

WgetProduceInfo_AsSent ==                \* mutant: done as soon as the request is sent
    /\ ProduceInfo("wget")
    /\ IF wgOwner.sent
       THEN Produced(<<>>, FALSE, TRUE) /\ wgOwner' = NewWget
       ELSE WgetRequest
    /\ UNCHANGED <<wget, fetch, files>>

WgetProduceInfo ==
    /\ ProduceInfo("wget")
    /\ \/ /\ wgOwner.sent
          /\ Produced(<<>>, FALSE, wgOwner.done)
          /\ wgOwner' = IF wgOwner.done THEN NewWget ELSE wgOwner
       \/ ~wgOwner.sent /\ WgetRequest
    /\ UNCHANGED <<wget, fetch, files>>

WgetStep ==
    \/ WgetActive \/ WgetParameter \/ WgetUrl \/ WgetYield \/ WgetHandleInfo \/ WgetProduceInfo
    \/ \E i \in DOMAIN fetch : FetchGet(i) \/ FetchCheck(i) \/ FetchRename(i)

------------------------------------------------------------------------------
(* Properties.                                                               *)

\* A fetch whose call of TO2 still runs places its contents under the name the
\* owner gave with its URL, and only the right ones if the owner gave a checksum.
\* (A fetch left over from an earlier call may take the name of a later one.)
Fetched ==
    \A i \in DOMAIN fetch :
        fetch[i].st = "checked" /\ fetch'[i].st = "ok" /\ fetch[i].call = call /\ Running =>
            /\ files'[wgOwner.url] = fetch[i].body
            /\ wgOwner.check = "checksum" => fetch[i].body = wgOwner.url
=============================================================================
