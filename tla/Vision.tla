------------------------------- MODULE Vision -------------------------------
(***************************************************************************)
(* The convolutional classifier and the kernels it is made of, over        *)
(* integers.  An image is a sequence of rows of pixels of channels, a      *)
(* feature map a sequence of rows of numbers.  The exponentials of softmax *)
(* and the square root of Adam are left out: the slope of the loss with    *)
(* the scores is a parameter of the sample, and Adam's moments are kept.   *)
(***************************************************************************)
EXTENDS Integers, Sequences, SequencesExt, FiniteSetsExt

CONSTANTS
  Samples,       \* [kind, image, net, stride, target or slopes], or a call of a kernel
  PixelScale,    \* 255 in the code
  Gradients,     \* what Adam may be fed
  MaxAdam        \* bound: its steps

VARIABLES
  sample, learned,    \* the step under training and what it computed
  moments, fed        \* Adam's state for one weight, the gradients since it is fresh
visionVars == <<sample, learned>>
adamVars == <<moments, fed>>
-----------------------------------------------------------------------------
Total(S, f(_)) == MapThenSumSet(f, S)
\* [Elem(i) for i in range(n)], evaluated at once
List(n, Elem(_)) == [i \in 1 .. n |-> Elem(i)] \o <<>>
Grid(h, w, Elem(_, _)) == List(h, LAMBDA i : List(w, LAMBDA j : Elem(i, j)))
Map(map, Op(_, _)) == Grid(Len(map), Len(map[1]), LAMBDA i, j : Op(i, j))
Each(s, Op(_)) == List(Len(s), Op)
Cells(map) == {<<i, j>> : i \in DOMAIN map, j \in (IF map = <<>> THEN {} ELSE DOMAIN map[1])}

\* range(0, n - k + 1, stride), counted
Places(n, k, stride) == IF n < k THEN 0 ELSE (n - k) \div stride + 1

\* the sums over the kernel's window, at every place of it in the image
Correlate(img, ker, bias, stride, Times(_, _)) ==
  Grid(Places(Len(img), Len(ker), stride), Places(Len(img[1]), Len(ker[1]), stride), LAMBDA i, j :
    bias + Total(Cells(ker), LAMBDA k : Times(img[(i - 1) * stride + k[1]][(j - 1) * stride + k[2]], ker[k[1]][k[2]])))

Product(v, w) == v * w
Dot(p, q) == Total(DOMAIN p, LAMBDA c : p[c] * q[c])

Repeat(x, n) == List(n, LAMBDA i : x)
Padded(img, padding, zero) ==
  LET side == Repeat(zero, padding)
      edge == Repeat(Repeat(zero, Len(img[1]) + 2 * padding), padding)
  IN  edge \o Each(img, LAMBDA i : side \o img[i] \o side) \o edge

Covers(img, ker) == Len(img) >= Len(ker) /\ Len(img[1]) >= Len(ker[1])

\* vision_kernels.py, conv2d_training.py, gpu_kernel_registry.py
conv2d_single_channel(img, ker, stride, padding, bias) ==
  LET padded == Padded(img, padding, 0) IN
  IF Covers(padded, ker) THEN Correlate(padded, ker, bias, stride, Product) ELSE <<>>
conv2d_forward(img, ker, bias, stride) ==
  IF Covers(img, ker) THEN Correlate(img, ker, bias, stride, Product) ELSE <<>>
cpu_conv2d(img, ker, bias, stride) ==
  IF Len(img) < Len(ker) \/ Len(img[1]) < Len(ker[1]) THEN <<>> ELSE Correlate(img, ker, bias, stride, Product)

\* vision_kernels_v2.py: an image with a value above 1 is taken for bytes
MaxNested(img) == Max({0} \cup UNION {{img[p[1]][p[2]][c] : c \in DOMAIN img[p[1]][p[2]]} : p \in Cells(img)})
normalize_rgb(img) == Map(img, LAMBDA i, j : Each(img[i][j], LAMBDA c : img[i][j][c] \div PixelScale))
conv2d_multi_channel(img, ker, stride, padding, bias) ==
  LET pixels == IF MaxNested(img) > 1 THEN normalize_rgb(img) ELSE img
      padded == Padded(pixels, padding, [c \in DOMAIN img[1][1] |-> 0])
  IN  IF Covers(padded, ker) THEN Correlate(padded, ker, bias, stride, Dot) ELSE <<>>

\* conv2d_multichannel_training.py
conv2d_multi_channel_forward(img, ker, bias, stride) == Correlate(img, ker, bias, stride, Dot)
conv2d_multi_filter_forward(img, kernels, biases, stride) ==
  Each(kernels, LAMBDA f : conv2d_multi_channel_forward(img, kernels[f], biases[f], stride))

\* Where the kernel's cell k meets the image, for the output at o.
Under(o, k, stride) == <<(o[1] - 1) * stride + k[1], (o[2] - 1) * stride + k[2]>>
Pixel(map, p) == map[p[1]][p[2]]

\* The outputs o over which the kernel's cell k, or the pixel y, x, spreads.
Meets(img, gout, k, stride) == Total(Cells(gout), LAMBDA o : Pixel(img, Under(o, k, stride)) * Pixel(gout, o))
Flow(ker, gout, y, x, stride) ==
  Total({o \in Cells(gout) : <<y, x>> \in {Under(o, k, stride) : k \in Cells(ker)}},
        LAMBDA o : ker[y - (o[1] - 1) * stride][x - (o[2] - 1) * stride] * Pixel(gout, o))
Channel(img, c) == Map(img, LAMBDA i, j : img[i][j][c])
AllOf(gout) == Total(Cells(gout), LAMBDA o : Pixel(gout, o))

conv2d_backward(img, ker, gout, stride) ==
  [kernel |-> Map(ker, LAMBDA a, b : Meets(img, gout, <<a, b>>, stride)),
   image |-> Map(img, LAMBDA y, x : Flow(ker, gout, y, x, stride)),
   bias |-> AllOf(gout)]

conv2d_multi_channel_backward(img, ker, gout, stride) ==
  LET plane == Each(img[1][1], LAMBDA c : conv2d_backward(Channel(img, c), Channel(ker, c), gout, stride)) IN
  [kernel |-> Map(ker, LAMBDA a, b : Each(plane, LAMBDA c : plane[c].kernel[a][b])),
   image |-> Map(img, LAMBDA y, x : Each(plane, LAMBDA c : plane[c].image[y][x])),
   bias |-> AllOf(gout)]

conv2d_multi_filter_backward(img, kernels, gouts, stride) ==
  LET each == Each(kernels, LAMBDA f : conv2d_multi_channel_backward(img, kernels[f], gouts[f], stride)) IN
  [kernels |-> Each(each, LAMBDA f : each[f].kernel),
   biases |-> Each(each, LAMBDA f : each[f].bias),
   image |-> Map(img, LAMBDA y, x : Each(img[y][x], LAMBDA c : Total(DOMAIN each, LAMBDA f : each[f].image[y][x][c])))]

\* the squared error and its slope, both times the number of values
mse_loss(pred, truth) ==
  [loss |-> Total(Cells(pred), LAMBDA p : (Pixel(pred, p) - Pixel(truth, p)) * (Pixel(pred, p) - Pixel(truth, p))),
   grad |-> Map(pred, LAMBDA i, j : 2 * (pred[i][j] - truth[i][j]))]
mse_feature_maps(preds, truths) ==
  [loss |-> Total(DOMAIN preds, LAMBDA f : mse_loss(preds[f], truths[f]).loss),
   grad |-> Each(preds, LAMBDA f : mse_loss(preds[f], truths[f]).grad)]

EachCell(maps, Op(_)) == Each(maps, LAMBDA f : Map(maps[f], LAMBDA i, j : Op(maps[f][i][j])))
relu_feature_maps(maps) ==
  [output |-> EachCell(maps, LAMBDA v : Max({0, v})), mask |-> EachCell(maps, LAMBDA v : IF v >= 0 THEN 1 ELSE 0)]
relu_feature_maps_backward(grads, mask) ==
  Each(grads, LAMBDA f : Map(grads[f], LAMBDA i, j : grads[f][i][j] * mask[f][i][j]))

\* The first greatest value of a window, row by row.
Windows(map, size, stride, Op(_, _)) == Grid(Places(Len(map), size, stride), Places(Len(map[1]), size, stride), Op)
Pooled(size, stride, i, j) == {<<(i - 1) * stride + a, (j - 1) * stride + b>> : a \in 1 .. size, b \in 1 .. size}
ReadFirst(p, q) == p[1] < q[1] \/ (p[1] = q[1] /\ p[2] < q[2])
MaxCell(map, window) ==
  CHOOSE p \in window : \A q \in window \ {p} :
    Pixel(map, q) < Pixel(map, p) \/ (Pixel(map, q) = Pixel(map, p) /\ ReadFirst(p, q))
maxpool2d_forward_with_mask(map, size, stride) ==
  LET mask == Windows(map, size, stride, LAMBDA i, j : MaxCell(map, Pooled(size, stride, i, j))) IN
  [output |-> Map(mask, LAMBDA i, j : Pixel(map, mask[i][j])), mask |-> mask]
maxpool2d_backward(grad, mask, map) ==
  Map(map, LAMBDA y, x : Total({o \in Cells(grad) : Pixel(mask, o) = <<y, x>>}, LAMBDA o : Pixel(grad, o)))
maxpool2d(map, size, stride) ==
  Windows(map, size, stride, LAMBDA i, j : Max({Pixel(map, p) : p \in Pooled(size, stride, i, j)}))
\* times the window's size
avgpool2d(map, size, stride) ==
  Windows(map, size, stride, LAMBDA i, j : Total(Pooled(size, stride, i, j), LAMBDA p : Pixel(map, p)))
image_to_patches(map, size, stride) ==
  FlattenSeq(Windows(map, size, stride, LAMBDA i, j :
    List(size * size, LAMBDA n : map[(i - 1) * stride + (n - 1) \div size + 1][(j - 1) * stride + ((n - 1) % size) + 1])))

flatten_feature_maps(maps) == FlattenSeq(Each(maps, LAMBDA f : FlattenSeq(maps[f])))
unflatten_feature_maps(values, maps) ==
  Each(maps, LAMBDA f : Map(maps[f], LAMBDA i, j :
    values[Len(flatten_feature_maps(SubSeq(maps, 1, f - 1))) + (i - 1) * Len(maps[f][1]) + j]))

dense_forward(features, weights, bias) ==
  Each(bias, LAMBDA k : Total(DOMAIN features, LAMBDA i : features[i] * weights[i][k]) + bias[k])
dense_backward(features, weights, slopes) ==
  [weights |-> Grid(Len(features), Len(slopes), LAMBDA i, k : features[i] * slopes[k]),
   bias |-> slopes,
   features |-> Each(features, LAMBDA i : Total(DOMAIN slopes, LAMBDA k : weights[i][k] * slopes[k]))]

\* NativeCNNClassifierV2.forward, without the probabilities
Scored(net, relu, pools, pooled, flat) ==
  [relu |-> relu, pools |-> pools, pooled |-> pooled, flat |-> flat, scores |-> dense_forward(flat, net.dense, net.bias)]
Flattened(net, relu, pools, pooled) == Scored(net, relu, pools, pooled, flatten_feature_maps(pooled))
PooledPass(net, relu, pools) == Flattened(net, relu, pools, Each(pools, LAMBDA f : pools[f].output))
Activated(net, relu) ==
  PooledPass(net, relu, Each(net.kernels, LAMBDA f : maxpool2d_forward_with_mask(relu.output[f], net.pool, net.pool)))
Forward(net, image) == Activated(net, relu_feature_maps(conv2d_multi_filter_forward(image, net.kernels, net.biases, 1)))

\* ReLU, pooling and flattening of one map
PooledFeatures(map, pool) == FlattenSeq(maxpool2d(Map(map, LAMBDA i, j : Max({0, map[i][j]})), pool, pool))
\* The features of CNNClassifier on the weights such a model saves, of the
\* pipeline of one RGB kernel and of the pipeline of one grey kernel.
cnn_multi_filter_features(net, image) ==
  FlattenSeq(Each(net.kernels, LAMBDA f :
    PooledFeatures(conv2d_multi_channel(image, net.kernels[f], 1, 0, net.biases[f]), net.pool)))
image_classifier_pipeline(image, kernel, pool) == PooledFeatures(conv2d_multi_channel(image, kernel, 1, 0, 0), pool)
cnn_feature_pipeline(image, kernel, pool) ==
  LET bytes == \E p \in Cells(image) : Pixel(image, p) > 1
      normalized == IF bytes THEN Map(image, LAMBDA i, j : image[i][j] \div PixelScale) ELSE image
  IN  PooledFeatures(conv2d_single_channel(normalized, kernel, 1, 0, 0), pool)
dense_predict(features, weights, bias) ==
  Each(weights[1], LAMBDA k :
     Total(1 .. Min({Len(features), Len(weights)}), LAMBDA i : features[i] * weights[i][k]) + bias[k])
\* softmax keeps the order of the scores, and the first greatest is taken
Predicted(scores) == CHOOSE k \in DOMAIN scores : \A l \in DOMAIN scores : scores[l] < scores[k] \/ (scores[l] = scores[k] /\ l >= k)
-----------------------------------------------------------------------------
Untrained == [kind |-> "none"]
VisionInit == sample \in Samples /\ learned = Untrained

\* one channel, no activation
TrainConv2dStep ==
  /\ sample.kind = "plain" /\ learned = Untrained
  /\ \E pred \in {conv2d_forward(sample.image, sample.net.kernel, sample.net.bias, sample.stride)} :
     \E grads \in {conv2d_backward(sample.image, sample.net.kernel, mse_loss(pred, sample.target).grad, sample.stride)} :
       learned' = [kind |-> "plain", kernel |-> grads.kernel, bias |-> grads.bias, image |-> grads.image]
  /\ UNCHANGED sample

\* filters and ReLU
TrainFeatureStep ==
  /\ sample.kind = "features" /\ learned = Untrained
  /\ LET n == sample.net IN
     \E relu \in {relu_feature_maps(conv2d_multi_filter_forward(sample.image, n.kernels, n.biases, 1))} :
     \E conv \in {relu_feature_maps_backward(mse_feature_maps(relu.output, sample.target).grad, relu.mask)} :
     \E grads \in {conv2d_multi_filter_backward(sample.image, n.kernels, conv, 1)} :
       learned' = [kind |-> "features", kernels |-> grads.kernels, biases |-> grads.biases]
  /\ UNCHANGED sample

\* NativeCNNClassifierV2.train_step up to the gradients
TrainStep ==
  /\ sample.kind = "classifier" /\ learned = Untrained
  /\ LET n == sample.net IN
     \E fwd \in {Forward(n, sample.image)} :
     \E dense \in {dense_backward(fwd.flat, n.dense, sample.slopes)} :
     \E pooled \in {unflatten_feature_maps(dense.features, fwd.pooled)} :
     \E relu \in {Each(pooled, LAMBDA f : maxpool2d_backward(pooled[f], fwd.pools[f].mask, fwd.relu.output[f]))} :
     \E conv \in {relu_feature_maps_backward(relu, fwd.relu.mask)} :
     \E grads \in {conv2d_multi_filter_backward(sample.image, n.kernels, conv, 1)} :
       learned' = [kind |-> "classifier", kernels |-> grads.kernels, biases |-> grads.biases,
                   dense |-> dense.weights, bias |-> dense.bias]
  /\ UNCHANGED sample

-----------------------------------------------------------------------------
(***************************************************************************)
(* The registry of kernels: which packages are installed and which devices *)
(* torch sees decide which backend a call is sent to.                      *)
(***************************************************************************)
OnTorch == {"matmul", "relu", "softmax"}

backend_status(installed, devices) ==
  [b \in {"cpu", "cuda", "rocm", "metal", "directml"} |->
     CASE b = "cpu" -> TRUE
       [] b = "cuda" -> ("torch" \in installed /\ "cuda" \in devices) \/ "cupy" \in installed
       [] b = "rocm" -> "torch" \in installed /\ "hip" \in devices
       [] b = "metal" -> "torch" \in installed /\ "mps" \in devices
       [] b = "directml" -> "torch_directml" \in installed]

\* The kernels with a function; "planned" ones have a name only.
default_registry(installed) ==
  {<<"cpu", k>> : k \in OnTorch \cup {"conv2d"}}
  \cup (IF "torch" \in installed THEN {"cuda", "metal"} \X OnTorch ELSE {})
Planned == {<<"cpu", "attention">>} \cup {"rocm", "directml"} \X (OnTorch \cup {"conv2d", "attention"})

Accelerators == <<"cuda", "rocm", "metal", "directml">>
select_backend(call) ==
  LET status == backend_status(call.installed, call.devices)
      usable == SelectSeq(Accelerators, LAMBDA b : status[b] /\ <<b, call.name>> \in default_registry(call.installed))
  IN  IF call.backend # "auto" /\ status[call.backend] THEN call.backend
      ELSE IF call.backend = "auto" /\ usable # <<>> THEN usable[1]
      ELSE IF call.fallback THEN "cpu" ELSE "unavailable"

Torch(device, devices) == IF device \in devices THEN "ran" ELSE "unavailable"
dispatch(call) ==
  LET selected == select_backend(call)
      kernel == <<selected, call.name>>
  IN  IF selected = "unavailable" THEN "unavailable"
      ELSE IF kernel \in Planned THEN "not implemented"
      ELSE IF kernel \notin default_registry(call.installed) THEN "not registered"
      ELSE CASE selected = "cuda" -> Torch("cuda", call.devices)
             [] selected = "metal" -> Torch("mps", call.devices)
             [] OTHER -> "ran"

DispatchKernel ==
  /\ sample.kind = "kernel" /\ learned = Untrained
  /\ learned' = [kind |-> "kernel", backend |-> select_backend(sample), outcome |-> dispatch(sample)]
  /\ UNCHANGED sample

VisionNext == TrainConv2dStep \/ TrainFeatureStep \/ TrainStep \/ DispatchKernel
-----------------------------------------------------------------------------
(***************************************************************************)
(* The moments of Adam for one weight, with beta1 = 1/2 and beta2 = 3/4: m *)
(* and v are kept as multiples of 2^-t and 4^-t.                           *)
(***************************************************************************)
FreshMoments == [t |-> 0, m |-> 0, v |-> 0]
AdamInit == moments = FreshMoments /\ fed = <<>>

\* ensure_shape makes the moments once, each call counts one step for all of its
\* weights, first and second moment are averages that begin at 0.
Moved(state, g) ==
  [t |-> state.t + 1, m |-> state.m + 2 ^ state.t * g, v |-> 3 * state.v + 4 ^ state.t * g * g]
MHat(state) == [num |-> state.m, den |-> 2 ^ state.t - 1]
VHat(state) == [num |-> state.v, den |-> 4 ^ state.t - 3 ^ state.t]

AdamUpdate(g) ==
  /\ moments.t < MaxAdam
  /\ moments' = Moved(moments, g) /\ fed' = Append(fed, g)

\* a saved model is loaded without its optimiser
LoadModel == moments.t > 0 /\ moments' = FreshMoments /\ fed' = <<>>

AdamNext == (\E g \in Gradients : AdamUpdate(g)) \/ LoadModel
-----------------------------------------------------------------------------
\* A parameter moved by d: a convolution's weight or bias, a dense one's.
Kernel(n, f, a, b, c, d) == [n EXCEPT !.kernels[f][a][b][c] = @ + d]
KernelCells(ks) == {<<f, a, b, c>> : f \in DOMAIN ks, a \in DOMAIN ks[1], b \in DOMAIN ks[1][1], c \in DOMAIN ks[1][1][1]}

\* The squared error is quadratic in each parameter, so its central difference
\* is its slope: train_conv2d_step returns that slope for every weight of the
\* kernel, for the bias, and for every pixel (conv2d_training.py:62).
PlainSlopes ==
  learned.kind = "plain" =>
    LET Loss(img, ker, b) == mse_loss(conv2d_forward(img, ker, b, sample.stride), sample.target).loss
        I == sample.image
        K == sample.net.kernel
        B == sample.net.bias
    IN  /\ Loss(I, K, B + 1) - Loss(I, K, B - 1) = 2 * learned.bias
        /\ \A p \in Cells(K) :
             Loss(I, [K EXCEPT ![p[1]][p[2]] = @ + 1], B) - Loss(I, [K EXCEPT ![p[1]][p[2]] = @ - 1], B)
               = 2 * learned.kernel[p[1]][p[2]]
        /\ \A p \in Cells(I) :
             Loss([I EXCEPT ![p[1]][p[2]] = @ + 1], K, B) - Loss([I EXCEPT ![p[1]][p[2]] = @ - 1], K, B)
               = 2 * learned.image[p[1]][p[2]]

\* With ReLU this holds of every weight whose move leaves the same cells active
\* (cnn_training_loop_v1.py:126).
FeatureSlopes ==
  learned.kind = "features" =>
    LET Out(n) == relu_feature_maps(conv2d_multi_filter_forward(sample.image, n.kernels, n.biases, 1))
        Loss(out) == mse_feature_maps(out.output, sample.target).loss
        Agrees(up, down, slope) ==
          \A here \in {Out(sample.net)}, u \in {Out(up)}, d \in {Out(down)} :
            u.mask = here.mask /\ d.mask = here.mask => Loss(u) - Loss(d) = 2 * slope
    IN  /\ \A k \in KernelCells(sample.net.kernels) :
             Agrees(Kernel(sample.net, k[1], k[2], k[3], k[4], 1), Kernel(sample.net, k[1], k[2], k[3], k[4], -1),
                    learned.kernels[k[1]][k[2]][k[3]][k[4]])
        /\ \A f \in DOMAIN sample.net.biases :
             Agrees([sample.net EXCEPT !.biases[f] = @ + 1], [sample.net EXCEPT !.biases[f] = @ - 1], learned.biases[f])

\* Through the dense layer, the flattening, the pooling and ReLU back to the
\* filters: as long as no other cell becomes active or the greatest of its window,
\* moving a parameter by 1 moves the slopes' sum of the scores by its gradient
\* (cnn_training_loop_v2.py:170).
ClassifierSlopes ==
  learned.kind = "classifier" =>
    \A here \in {Forward(sample.net, sample.image)} :
    LET Score(fwd) == Dot(fwd.scores, sample.slopes)
        Shape(fwd) == <<fwd.relu.mask, Each(fwd.pools, LAMBDA f : fwd.pools[f].mask)>>
        Agrees(n, slope) ==
          \A there \in {Forward(n, sample.image)} : Shape(there) = Shape(here) => Score(there) - Score(here) = slope
    IN  /\ \A k \in KernelCells(sample.net.kernels) :
             Agrees(Kernel(sample.net, k[1], k[2], k[3], k[4], 1), learned.kernels[k[1]][k[2]][k[3]][k[4]])
        /\ \A f \in DOMAIN sample.net.biases : Agrees([sample.net EXCEPT !.biases[f] = @ + 1], learned.biases[f])
        /\ \A p \in Cells(sample.net.dense) :
             Agrees([sample.net EXCEPT !.dense[p[1]][p[2]] = @ + 1], learned.dense[p[1]][p[2]])
        /\ \A k \in DOMAIN sample.net.bias : Agrees([sample.net EXCEPT !.bias[k] = @ + 1], learned.bias[k])

\* The kernels were written four times, the forward pass four times: on images of
\* at least the kernel's size they compute the same, for RGB as long as no value
\* is above 1, so that a model trained by one is read by the other.
ForwardsAgree ==
  /\ sample.kind = "plain" =>
       LET I == sample.image
           K == sample.net.kernel
           B == sample.net.bias
           Lifted(x) == Map(x, LAMBDA i, j : <<x[i][j]>>)
           Sum(s) == Total(DOMAIN s, LAMBDA n : s[n])
       IN  \A one \in {conv2d_forward(I, K, B, sample.stride)}, patches \in {image_to_patches(I, Len(K), sample.stride)} :
           /\ one = conv2d_single_channel(I, K, sample.stride, 0, B) /\ one = cpu_conv2d(I, K, B, sample.stride)
           /\ one = conv2d_multi_channel_forward(Lifted(I), Lifted(K), B, sample.stride)
           /\ FlattenSeq(one) = Each(patches, LAMBDA n : B + Dot(patches[n], FlattenSeq(K)))
           /\ maxpool2d(I, 2, sample.stride) = maxpool2d_forward_with_mask(I, 2, sample.stride).output
           /\ FlattenSeq(avgpool2d(I, Len(K), sample.stride)) = Each(patches, LAMBDA n : Sum(patches[n]))
           /\ cnn_feature_pipeline(I, K, 2) = image_classifier_pipeline(Lifted(I), Lifted(K), 2)
  /\ sample.kind = "classifier" /\ MaxNested(sample.image) <= 1 =>
       \A read \in {cnn_multi_filter_features(sample.net, sample.image)}, trained \in {Forward(sample.net, sample.image)} :
       \A scores \in {dense_predict(read, sample.net.dense, sample.net.bias)} :
         read = trained.flat /\ scores = trained.scores /\ Predicted(scores) = Predicted(trained.scores)

\* "auto" runs every kernel the CPU has, whatever is installed beside it, unless
\* cupy vouches for a device that torch, which is called, does not see; and a call
\* that forbids the CPU never runs on it (gpu_kernel_registry.py:139).
DispatchedWhereItRuns ==
  learned.kind = "kernel" =>
    /\ /\ sample.backend = "auto" /\ sample.fallback /\ <<"cpu", sample.name>> \in default_registry(sample.installed)
       /\ "cupy" \in sample.installed => "cuda" \in sample.devices
       => learned.outcome = "ran"
    /\ learned.outcome = "ran" /\ ~ sample.fallback => learned.backend # "cpu" \/ sample.backend = "cpu"

\* After the correction of their bias the moments are weighted averages: however
\* short the history, the first lies between the least and the greatest gradient
\* since the state is fresh, the second between their squares
\* (cnn_optimizers.py:84, cnn_training_loop_v1.py:83, cnn_training_loop_v2.py:99).
MomentsUnbiased ==
  moments.t > 0 =>
    LET gs == ToSet(fed)
        squares == {g * g : g \in gs}
        m == MHat(moments)
        v == VHat(moments)
    IN  /\ Min(gs) * m.den <= m.num /\ m.num <= Max(gs) * m.den
        /\ Min(squares) * v.den <= v.num /\ v.num <= Max(squares) * v.den
=============================================================================
