------------------------------ MODULE S3Reads ------------------------------
(***************************************************************************)
(* Which way a read of an s3:// object goes: the cached path's transport    *)
(* (rust/src/transport/s3.rs) and the direct path's store options           *)
(* (zarr_object_store.rs), deciding from the same vocabulary of options     *)
(* (s3_config.rs).  Options are <<key, value>> pairs in order; names are    *)
(* already folded to lower case.  An environment is the AWS_* variables,    *)
(* the per-bucket spec, the signed buckets and the crate's own region.      *)
(***************************************************************************)
EXTENDS Transports

S3SigningKeys == {"aws_skip_signature", "skip_signature"}
S3StaticKeyKeys == {"aws_access_key_id", "access_key_id"}
S3CredentialKeys == S3StaticKeyKeys \cup
  {"aws_secret_access_key", "secret_access_key", "aws_session_token", "session_token",
   "aws_token", "token", "aws_container_credentials_relative_uri",
   "container_credentials_relative_uri", "aws_container_credentials_full_uri",
   "container_credentials_full_uri", "aws_web_identity_token_file",
   "web_identity_token_file", "aws_role_arn", "role_arn"}
S3EndpointKeys ==
  {"endpoint", "endpoint_url", "aws_endpoint", "aws_endpoint_url", "aws_endpoint_url_s3"}
S3RegionKeys == {"aws_region", "region"}
Truthy == {"true", "1", "yes", "on"}

HasAny(options, keys) == \E i \in DOMAIN options : options[i][1] \in keys
ValueOf(options, keys) ==
  LET found == SelectSeq(options, LAMBDA o : o[1] \in keys)
  IN  IF found = << >> THEN None ELSE found[1][2]

(* --- the per-bucket statement ------------------------------------------ *)
(* A spec is None or what its JSON holds: a function of bucket names to      *)
(* options, an entry that is no object and a value that is no scalar being  *)
(* None; BadJson when it is no object at all.                               *)
ParseBucketOptions(spec) ==
  CASE spec = None -> << >>
    [] spec = Refused -> Refused
    [] OTHER ->
       IF \/ "" \in DOMAIN spec
          \/ \E b \in DOMAIN spec : spec[b] = None
          \/ \E b \in DOMAIN spec : \E i \in DOMAIN spec[b] : spec[b][i][2] = None
       THEN Refused ELSE spec

OptionsForBucket(env, bucket) ==
  LET map == ParseBucketOptions(env.spec)
  IN  IF map = Refused THEN << >>
      ELSE IF bucket \in DOMAIN map THEN map[bucket] ELSE << >>

IsS3Url(url) == url.scheme \in {"s3", "s3a"}
OptionsForUrl(env, url) ==
  IF IsS3Url(url) /\ url.bucket # "" THEN OptionsForBucket(env, url.bucket) ELSE << >>

(* Sign, read anonymously, or no statement.                                 *)
StatedSigning(options) ==
  LET v == ValueOf(options, S3SigningKeys)
  IN  IF v # None THEN v \notin Truthy
      ELSE IF HasAny(options, S3CredentialKeys) THEN TRUE ELSE None

StatedRegion(options) ==
  LET r == ValueOf(options, S3RegionKeys) IN IF r = "" THEN None ELSE r

ResolveRegion(env) ==
  LET aws == ValueOf(env.vars, {"aws_region"})
  IN  IF env.region \notin {None, ""} THEN env.region
      ELSE IF aws \notin {None, ""} THEN aws ELSE "us-east-2"

ResolveRegionForBucket(env, bucket, explicit) ==
  LET stated == StatedRegion(OptionsForBucket(env, bucket))
  IN  IF explicit # None THEN explicit
      ELSE IF stated # None THEN stated ELSE ResolveRegion(env)

(* --- options of a direct read ------------------------------------------ *)
Overlay(base, options) ==
  FoldLeft(LAMBDA acc, o : Append(SelectSeq(acc, LAMBDA m : m[1] # o[1]), o),
           base, options)

\* (mutant) any credential in reach is consent
ReadStoreOptionsAmbient(env, url, explicit) ==
  LET merged == Overlay(env.vars, OptionsForUrl(env, url) \o explicit)
  IN  IF \/ ~IsS3Url(url) \/ HasAny(merged, S3SigningKeys \cup S3CredentialKeys)
      THEN merged ELSE Append(merged, <<"aws_skip_signature", "true">>)
ReadStoreOptions(env, url, explicit) ==
  LET perBucket == OptionsForUrl(env, url)
      merged == Overlay(env.vars, perBucket \o explicit)
      statedForThisRead == HasAny(explicit, S3CredentialKeys)
                             \/ HasAny(perBucket, S3CredentialKeys)
      configuredEndpoint == HasAny(merged, S3EndpointKeys)
                              /\ HasAny(merged, S3StaticKeyKeys)
  IN  IF \/ ~IsS3Url(url) \/ HasAny(merged, S3SigningKeys)
         \/ statedForThisRead \/ configuredEndpoint
      THEN merged ELSE Append(merged, <<"aws_skip_signature", "true">>)

ApplyS3Defaults(env, url, options) ==
  LET skip == IF HasAny(options, S3SigningKeys \cup S3CredentialKeys) THEN << >>
              ELSE <<<<"aws_skip_signature", "true">>>>
      region == IF HasAny(options, S3RegionKeys) THEN << >>
                ELSE <<<<"aws_region", ResolveRegion(env)>>>>
  IN  IF IsS3Url(url) THEN options \o skip \o region ELSE options

(* object_store: spellings of a key are one setting, the last one given.    *)
Backend(options) ==
  LET skip == ValueOf(Reverse(options), S3SigningKeys)
  IN  [signed |-> skip \notin Truthy, region |-> ValueOf(Reverse(options), S3RegionKeys)]

DirectRoute(env, url, explicit) ==
  Backend(ApplyS3Defaults(env, url, ReadStoreOptions(env, url, explicit)))

(* --- the cached path's transport --------------------------------------- *)
(* Built from the environment, or told its region and its signed buckets.   *)
NewTransport(env) == [region |-> None, signed |-> env.signedBuckets, envSigning |-> TRUE]
SigningBuckets(transport, buckets) ==
  [transport EXCEPT !.signed = buckets \ {""}, !.envSigning = FALSE]

Signs(transport, env, bucket) ==
  LET stated == IF transport.envSigning
                THEN StatedSigning(OptionsForBucket(env, bucket)) ELSE None
  IN  IF stated # None THEN stated ELSE bucket \in transport.signed

SignedOptions(transport, env, url) ==
  LET region == ResolveRegionForBucket(env, url.bucket, transport.region)
  IN  ReadStoreOptions(env, url, <<<<"aws_skip_signature", "false">>, <<"aws_region", region>>>>)

CachedRoute(transport, env, url) ==
  IF url.scheme # "s3" \/ url.bucket = "" \/ ParseBucketOptions(env.spec) = Refused
  THEN Refused
  ELSE IF Signs(transport, env, url.bucket)
  THEN Backend(SignedOptions(transport, env, url))
  ELSE [signed |-> FALSE, region |-> ResolveRegionForBucket(env, url.bucket, transport.region)]

(* --- the signed read ---------------------------------------------------- *)
(* A validator is its text and how it is quoted.                            *)
EtagEq(a, b) == a # None /\ b # None /\ a.text = b.text

(* The object is asked for its size and validator, then pulled in ranges;    *)
(* the k-th request of the call is answered by `object[k]`.                 *)
FetchSigned(object, etag, chunk) ==
  LET head == object[1]
      count == (head.size + chunk - 1) \div chunk
      Part(k) == LET end == IF k * chunk < head.size THEN k * chunk ELSE head.size
                  IN  SubSeq(object[k + 1].body, (k - 1) * chunk + 1, end)
      failing == {k \in 1..count + 1 : object[k].code # 200}
      first == CHOOSE k \in failing : \A j \in failing : k <= j
  IN  CASE head.code = 200 /\ EtagEq(etag, head.etag) -> NotModified(head.etag)
        [] OTHER ->
           IF failing # {}
           THEN Failure(IF object[first].code = 404 THEN "not_found" ELSE "transport")
           ELSE Downloaded(head.etag, FlattenSeq([k \in 1..count |-> Part(k)]), None)
=============================================================================
