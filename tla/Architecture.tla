----------------------------- MODULE Architecture -----------------------------
(***************************************************************************)
(* model.txt: the layers of a network as src/init.c writes them and        *)
(* src/project.c reads them, with the activations of src/activation.c and  *)
(* the outputs that a loss allows (src/loss.c).                            *)
(*                                                                         *)
(* A line is an "input" line with a size or a "dense" line with a layer; a *)
(* layer's parameters are the sequence of names and values on its line.    *)
(***************************************************************************)
EXTENDS Configuration

Activations ==
  {"linear", "sigmoid", "tanh", "relu", "leaky_relu", "elu", "softmax"}

ParameterNames == {"alpha", "beta", "threshold"}

(* The only parameters there are: alpha of two activations, above zero and, *)
(* for leaky_relu, below one.                                               *)
ParameterAllowed(kind, name, value) ==
  \/ kind = "leaky_relu" /\ name = "alpha" /\ value > 0 /\ value < One
  \/ kind = "elu" /\ name = "alpha" /\ value > 0

ParameterCount(kind) == IF kind \in {"leaky_relu", "elu"} THEN 1 ELSE 0

ActivationValid(kind, parameters) ==
  /\ Len(parameters) = ParameterCount(kind)
  /\ \A i \in DOMAIN parameters :
       ParameterAllowed(kind, parameters[i][1], parameters[i][2])

(* Each parameter parses, and none is given twice.                          *)
ParametersRead(parameters) ==
  /\ \A i \in DOMAIN parameters :
       parameters[i][1] \in ParameterNames /\ parameters[i][2] \in Int
  /\ \A i, j \in DOMAIN parameters :
       parameters[i][1] = parameters[j][1] => i = j

LayerReads(layer) ==
  /\ layer.neurons \in Nat \ {0}
  /\ layer.kind \in Activations
  /\ ParametersRead(layer.parameters)
  /\ ActivationValid(layer.kind, layer.parameters)

NoModel == [ok |-> FALSE, inputs |-> 0, layers |-> <<>>]

InputLine(model, size) ==
  IF model.ok /\ model.inputs = 0 /\ model.layers = <<>> /\ size \in Nat \ {0}
    THEN [model EXCEPT !.inputs = size]
    ELSE NoModel

DenseLine(model, layer) ==
  IF model.ok /\ model.inputs # 0 /\ LayerReads(layer)
    THEN [model EXCEPT !.layers = Append(@, layer)]
    ELSE NoModel

ReadModelLine(model, line) ==
  CASE line[1] = "input" -> InputLine(model, line[2])
    [] line[1] = "dense" -> DenseLine(model, line[2])
    [] OTHER -> NoModel

(* The model after each number of lines.                                    *)
ModelReaders(lines) ==
  LET reader[i \in 0 .. Len(lines)] ==
        IF i = 0 THEN [ok |-> TRUE, inputs |-> 0, layers |-> <<>>]
        ELSE ReadModelLine(reader[i - 1], lines[i])
  IN  reader

ReadModel(lines) ==
  LET end == ModelReaders(lines)[Len(lines)]
  IN  IF end.inputs # 0 /\ end.layers # <<>> THEN end ELSE NoModel

WriteModel(m) ==
  <<<<"input", m.inputs>>>>
  \o [i \in DOMAIN m.layers |-> <<"dense", m.layers[i]>>]

OutputLayer(m) == m.layers[Len(m.layers)]

(* Which output a loss can be computed for.                                 *)
LossFits(loss, m) ==
  /\ loss = "binary_cross_entropy" => OutputLayer(m).kind = "sigmoid"
  /\ loss = "categorical_cross_entropy" =>
       OutputLayer(m).kind = "softmax" /\ OutputLayer(m).neurons >= 2
=============================================================================
