---------------------------- MODULE MCContainer ----------------------------
(* Model-checking instances of Container. *)
EXTENDS Container

Defaults ==
  [production |-> FALSE, strongKey |-> TRUE, database |-> "url",
   storage |-> "local", embedder |-> "memory", store |-> "faiss",
   splitter |-> "langchain", rewrite |-> FALSE, provider |-> "gemini",
   apiKey |-> FALSE, dims |-> 2]

\* Starts that serve from either store and with either embedder, the latter
\* with dimensions that suit the model or do not, or without a database.
MCUsual ==
  {[Defaults EXCEPT !.store = s, !.embedder = e, !.dims = n] :
      s \in {"faiss", "memory"}, e \in {"sentence_transformers", "memory"}, n \in {2, 3}}
  \cup {[Defaults EXCEPT !.database = "none"]}

\* Starts with one setting out of the ordinary, or with the three that decide
\* on the language model.
MCSettings ==
  MCUsual
  \cup {[Defaults EXCEPT !.production = TRUE, !.strongKey = b] : b \in BOOLEAN}
  \cup {[Defaults EXCEPT !.database = "malformed"]}
  \cup {[Defaults EXCEPT !.storage = s] : s \in {"s3", "S3"}}
  \cup {[Defaults EXCEPT !.embedder = "other"], [Defaults EXCEPT !.store = "other"],
         [Defaults EXCEPT !.splitter = "other"]}
  \cup {[Defaults EXCEPT !.rewrite = r, !.provider = p, !.apiKey = k] :
           r \in BOOLEAN, p \in {"gemini", "other"}, k \in BOOLEAN}

\* Settings of the two extra configurations.
MCDims == {[Defaults EXCEPT !.dims = n, !.embedder = e] :
             n \in {2, 3}, e \in {"sentence_transformers", "memory"}}

MCRewrite == {[Defaults EXCEPT !.rewrite = r] : r \in BOOLEAN}
=============================================================================
