----------------------------- MODULE Transports -----------------------------
(***************************************************************************)
(* What one call of a transport answers (rust/src/transport): HTTP, a local *)
(* file and a job of the Climate Data Store.  An answer is its status, the  *)
(* validator to keep, the blocks written to staging and their hash when     *)
(* they were hashed on the way (here, the blocks themselves).              *)
(***************************************************************************)
EXTENDS Outcomes, Integers, Sequences, SequencesExt

Failure(status) ==
  [status |-> status, etag |-> None, written |-> << >>, hashed |-> None]
Downloaded(etag, written, hashed) ==
  [status |-> "downloaded", etag |-> etag, written |-> written, hashed |-> hashed]
NotModified(etag) == [Failure("not_modified") EXCEPT !.etag = etag]

(* --- registries of transports and of auth realms ----------------------- *)
Register(registry, names, entry) ==
  [n \in DOMAIN registry \cup names |-> IF n \in names THEN entry ELSE registry[n]]
WithBuiltins ==
  Register(Register(Register(Register(<< >>, {"http", "https"}, "http"),
    {"file"}, "file"), {"cds"}, "cds"), {"s3"}, "s3")
Get(registry, name) == IF name \in DOMAIN registry THEN registry[name] ELSE None

(* A resolver's headers, each well formed or not.                           *)
AuthHeaders(auth) ==
  IF auth = None THEN {}
  ELSE IF \E h \in auth : ~h.valid THEN Refused
  ELSE {h.name : h \in auth}

(* --- external: a server, and a request it was sent --------------------- *)
(* Down, or a status; a current validator gets 304; a body may be cut.      *)
Answer(server, etag) ==
  IF server.code = 200 /\ etag # None /\ etag = server.etag
  THEN [server EXCEPT !.code = 304] ELSE server
Unreachable == 0
Ok(code) == code \in 200..299

(* --- HTTP --------------------------------------------------------------- *)
FetchHttp(server, etag, auth) ==
  LET answer == Answer(server, etag)
  IN  CASE AuthHeaders(auth) = Refused \/ answer.code = Unreachable -> Failure("transport")
        [] answer.code = 304 -> NotModified(etag)
        [] answer.code \in {404, 410} -> Failure("not_found")
        [] ~Ok(answer.code) \/ answer.cut -> Failure("transport")
        [] OTHER -> Downloaded(answer.etag, answer.body, answer.body)

(* --- a local file ------------------------------------------------------ *)
FileUrlToPath(url) ==
  IF url.scheme # "file" \/ url.path = None THEN Refused ELSE url.path

FetchFile(url, files) ==
  LET path == FileUrlToPath(url)
  IN  CASE path = Refused -> Failure("bad_url")
        [] path # Refused /\ path \notin DOMAIN files -> Failure("io")
        [] OTHER -> Downloaded(None, files[path], None)

(* --- a job of the CDS --------------------------------------------------- *)
(* The store's answers to one request: of the submission, of each poll (the  *)
(* last one repeated), of the results and of the asset.  A document is a     *)
(* status, and a job or an href; None when it is not JSON.                  *)
ReadDoc(answer) == IF Ok(answer.code) THEN answer.doc ELSE None

ParseCdsUrl(url) ==
  IF url.scheme # "cds" \/ url.dataset = None \/ url.request = None
  THEN Refused ELSE <<url.dataset, url.request>>

Submit(cds) ==
  LET doc == ReadDoc(cds.submit)
  IN  IF doc = None THEN Refused
      ELSE IF \/ doc.status \notin {"accepted", "running", "successful"}
              \/ doc.job = None
      THEN Refused ELSE doc.job

ResultsHref(cds) ==
  LET doc == ReadDoc(cds.results)
  IN  IF doc = None THEN Refused ELSE IF doc.href = None THEN Refused ELSE doc.href

(* Poll i, answered `clock` after the first was sent.                       *)
Wait(cds, budget) ==
  LET At(i) == cds.polls[IF i < Len(cds.polls) THEN i ELSE Len(cds.polls)]
      poll[i \in Nat, clock \in Nat] ==
        LET doc == ReadDoc(At(i))
            now == clock + At(i).took
        IN  CASE doc = None -> [href |-> Refused, polls |-> i, clock |-> now]
              [] OTHER ->
                 CASE doc.status = "successful" ->
                        [href |-> ResultsHref(cds), polls |-> i, clock |-> now]
                   [] doc.status = "failed" \/ now > budget.timeout ->
                        [href |-> Refused, polls |-> i, clock |-> now]
                   [] OTHER -> poll[i + 1, now + budget.interval]
  IN  poll[1, 0]

\* (mutant) the asset's answer is classified as an HTTP object's is
DownloadAsHttp(cds) ==
  IF cds.asset.code \in {404, 410} THEN Failure("not_found")
  ELSE IF Ok(cds.asset.code) /\ ~cds.asset.cut
  THEN Downloaded(None, cds.asset.body, cds.asset.body) ELSE Failure("transport")
(* The asset, fetched without the token.                                    *)
Download(cds) ==
  IF Ok(cds.asset.code) /\ ~cds.asset.cut
  THEN Downloaded(None, cds.asset.body, cds.asset.body)
  ELSE Failure("transport")

(* There is nothing to revalidate against: the validators are ignored.      *)
FetchCds(url, cds, budget, auth) ==
  CASE ParseCdsUrl(url) = Refused -> Failure("bad_url")
    [] AuthHeaders(auth) = Refused \/ Submit(cds) = Refused -> Failure("transport")
    [] Wait(cds, budget).href = Refused -> Failure("transport")
    [] OTHER -> Download(cds)
=============================================================================
